---- MODULE Spec2Model ----
(***************************************************************************)
(* AF_XDP socket library (xdp-socket): the seek / peek / commit protocol   *)
(* of the directional handles Socket<_TX> and Socket<_RX> over the four    *)
(* rings shared with the kernel, and the kernel as the peer of each ring.  *)
(*                                                                         *)
(* Every handle operation is a pure operator from the socket record (the   *)
(* struct Socket with its two Ring values, which stand for the shared ring *)
(* memory) to the new record, the returned Result and the trace of ring    *)
(* accesses the call made, in program order.                               *)
(***************************************************************************)
EXTENDS Integers, Sequences, FiniteSets, Bags, TLC

\* ------------------------------------------------------------------ bounds

\* log2 of the frame count: the code's FRAME_COUNT is 4096 = 2^12
RingBits == 2
\* width in bits of the ring index words and of the cached u32 indices: the
\* code's are 32 bits wide, and every `as u32` of a count or an index
\* truncates to this width
IndexBits == 3
\* a TX commit does not advance the cached producer past this value, an RX
\* commit the cached consumer, and the kernel delivers no more RX descriptors
MaxIndex == 4
\* longest payload whose bytes are tracked in the UMEM
MaxPayload == 2
\* frames the sender with payload commits
MaxSent == 2
\* packets with payload the kernel delivers
MaxReceived == 2
\* poll results handed to one poll_wait
MaxPolls == 2

\* -------------------------------------------------------------- constants

FRAME_SIZE == 2048
FRAME_COUNT == 2 ^ RingBits
\* the modulus of u32 arithmetic on indices and counts
U32 == 2 ^ IndexBits

wrapping_add(a, b) == (a + b) % U32
wrapping_sub(a, b) == (a - b + U32) % U32
as_u32(x) == x % U32

\* bitwise AND on naturals, as `index & mod_mask`
RECURSIVE BitAnd(_, _)
BitAnd(x, y) ==
    IF x = 0 \/ y = 0 THEN 0
    ELSE (x % 2) * (y % 2) + 2 * BitAnd(x \div 2, y \div 2)

\* ------------------------------------------------------------ descriptors

XdpDesc(addr, len, options) == [addr |-> addr, len |-> len, options |-> options]

Min(a, b) == IF a < b THEN a ELSE b

\* Result<_, RingError>
Ok(v) == [tag |-> "Ok", val |-> v]
Err(e) == [tag |-> e, val |-> 0]
\* a failed assert! / debug_assert!
Panic == [tag |-> "panic", val |-> 0]

\* one access to shared ring memory: ring is "x" or "u", `at` the slot
\* (0 for an index word), val the index value or the address
Event(ring, kind, at, val, len) ==
    [ring |-> ring, kind |-> kind, at |-> at, val |-> val, len |-> len]

\* libc: the flags of the wake-up syscall
MSG_DONTWAIT == 64
MSG_NOSIGNAL == 16384

\* a syscall on the socket's file descriptor: its name, the length of its
\* buffer and its flags
Syscall(name, len, flags) == Event("fd", name, 0, flags, len)

\* ------------------------------------------------------------------ rings

\* Ring::default(): null mapping, len 0
RingDefault ==
    [mapped |-> FALSE, len |-> 0, mod_mask |-> 0,
     producer |-> 0, consumer |-> 0, flags |-> 0, desc |-> << >>]

\* Ring::<T>::mmap: a fresh shared mapping of kernel ring memory (zeroed)
RingMmap(len, zero) ==
    [mapped |-> TRUE, len |-> len, mod_mask |-> as_u32(as_u32(len) + U32 - 1),
     producer |-> 0, consumer |-> 0, flags |-> 0,
     desc |-> [i \in 0 .. len - 1 |-> zero]]

\* a fill that starts at frame 0 whatever start_frame is
fill_u64_zero(ring, start_frame) ==
    [ring EXCEPT !.desc =
        [i \in 0 .. ring.len - 1 |-> as_u32(i) * FRAME_SIZE]]

\* Ring<u64>::fill
fill_u64(ring, start_frame) ==
    [ring EXCEPT !.desc =
        [i \in 0 .. ring.len - 1 |-> as_u32(i + start_frame) * FRAME_SIZE]]

\* a fill of descriptors that starts a ring's length past start_frame
fill_desc_high(ring, start_frame) ==
    [ring EXCEPT !.desc =
        [i \in 0 .. ring.len - 1 |->
            XdpDesc(as_u32(i + start_frame + ring.len) * FRAME_SIZE, 0, 0)]]

\* Ring<XdpDesc>::fill
fill_desc(ring, start_frame) ==
    [ring EXCEPT !.desc =
        [i \in 0 .. ring.len - 1 |->
            XdpDesc(as_u32(i + start_frame) * FRAME_SIZE, 0, 0)]]

update_producer(ring, value) == [ring EXCEPT !.producer = value]
update_consumer(ring, value) == [ring EXCEPT !.consumer = value]

\* ---------------------------------------------------------------- sockets

\* Socket::default()
SocketDefault ==
    [inner |-> FALSE, x_ring |-> RingDefault, u_ring |-> RingDefault,
     available |-> 0, producer |-> 0, consumer |-> 0,
     skip_frames |-> 0, frames_count |-> 0]

\* Socket::<t>::new
SocketNew(t, inner, x_ring, u_ring, skip_frames) ==
    IF inner
    THEN LET x1 == IF t = "TX" THEN fill_desc(x_ring, as_u32(skip_frames)) ELSE x_ring
             u1 == IF t = "TX" THEN u_ring
                   ELSE update_producer(fill_u64(u_ring, as_u32(skip_frames)),
                                        as_u32(u_ring.len))
         IN [inner |-> TRUE, x_ring |-> x1, u_ring |-> u1,
             available |-> as_u32(x1.len), producer |-> 0, consumer |-> 0,
             skip_frames |-> skip_frames, frames_count |-> x1.len]
    ELSE SocketDefault

ZeroDesc == XdpDesc(0, 0, 0)

\* create_socket: the ring sizes per direction
tx_ring_size(direction) ==
    CASE direction = "Tx" -> FRAME_COUNT
      [] direction = "Rx" -> 0
      [] OTHER -> FRAME_COUNT \div 2

rx_ring_size(direction) ==
    CASE direction = "Tx" -> 0
      [] direction = "Rx" -> FRAME_COUNT
      [] OTHER -> FRAME_COUNT \div 2

\* create_socket: the (Option<TxSocket>, Option<RxSocket>) of a successful run;
\* None is the record with some = FALSE
create_socket(direction) ==
    LET c_ring == IF direction = "Rx" THEN RingDefault
                  ELSE RingMmap(tx_ring_size(direction), 0)
        tx_ring == IF direction = "Rx" THEN RingDefault
                   ELSE fill_desc(RingMmap(tx_ring_size(direction), ZeroDesc), 0)
        rx_ring == IF direction = "Tx" THEN RingDefault
                   ELSE RingMmap(rx_ring_size(direction), ZeroDesc)
        f_ring == IF direction = "Tx" THEN RingDefault
                  ELSE LET f == fill_u64(RingMmap(rx_ring_size(direction), 0),
                                         as_u32(tx_ring_size(direction)))
                       IN update_producer(f, as_u32(f.len))
    IN [tx |-> IF direction # "Rx"
               THEN [some |-> TRUE, sock |-> SocketNew("TX", TRUE, tx_ring, c_ring, 0)]
               ELSE [some |-> FALSE, sock |-> SocketDefault],
        rx |-> IF direction # "Tx"
               THEN [some |-> TRUE,
                     sock |-> SocketNew("RX", TRUE, rx_ring, f_ring, tx_ring_size(direction))]
               ELSE [some |-> FALSE, sock |-> SocketDefault]]

\* ------------------------------------------------- TX: seek / peek / commit

\* the reclaim loop of Seek_<_TX>::seek_ (one iteration per recursion)
RECURSIVE Tx_seek_loop(_, _, _, _)
Tx_seek_loop(s, c_producer, count, ev) ==
    LET c_head == BitAnd(s.consumer, s.u_ring.mod_mask)
        addr == s.u_ring.desc[c_head]
        desc == XdpDesc(addr, 0, 0)
        consumer1 == wrapping_add(s.consumer, 1)
        x_head == BitAnd(s.producer, s.x_ring.mod_mask)
        s1 == [s EXCEPT !.consumer = consumer1,
                        !.u_ring = update_consumer(@, consumer1),
                        !.x_ring.desc[x_head] = desc,
                        !.available = @ + 1]
        ev1 == ev \o << Event("u", "read_desc", c_head, addr, 0),
                        Event("u", "store_consumer", 0, consumer1, 0),
                        Event("x", "write_desc", x_head, addr, 0) >>
    IN IF s1.available >= count \/ c_producer = s1.consumer
       THEN [s |-> s1, ev |-> ev1]
       ELSE Tx_seek_loop(s1, c_producer, count, ev1)

\* a seek_ that returns count after the reclaim loop
Tx_seek_count(s, count) ==
    IF s.available >= count
    THEN [s |-> s, res |-> Ok(count), ev |-> << >>]
    ELSE LET c_producer == s.u_ring.producer
             ev0 == << Event("u", "load_producer", 0, c_producer, 0) >>
         IN IF c_producer = s.consumer
            THEN [s |-> s, res |-> Err("RingFull"), ev |-> ev0]
            ELSE LET r == Tx_seek_loop(s, c_producer, count, ev0)
                 IN [s |-> r.s, res |-> Ok(count), ev |-> r.ev]

\* a seek_ that reclaims every Completion entry it finds
Tx_seek_all(s, count) ==
    IF s.available >= count
    THEN [s |-> s, res |-> Ok(count), ev |-> << >>]
    ELSE LET c_producer == s.u_ring.producer
             ev0 == << Event("u", "load_producer", 0, c_producer, 0) >>
         IN IF c_producer = s.consumer
            THEN [s |-> s, res |-> Err("RingFull"), ev |-> ev0]
            ELSE LET r == Tx_seek_loop(s, c_producer, s.x_ring.len, ev0)
                 IN [s |-> r.s, res |-> Ok(count), ev |-> r.ev]

\* a seek_ that looks at the Completion ring whatever available is
Tx_seek_eager(s, count) ==
    LET c_producer == s.u_ring.producer
        ev0 == << Event("u", "load_producer", 0, c_producer, 0) >>
    IN IF c_producer = s.consumer
       THEN IF s.available >= count
            THEN [s |-> s, res |-> Ok(count), ev |-> ev0]
            ELSE [s |-> s, res |-> Err("RingFull"), ev |-> ev0]
       ELSE LET r == Tx_seek_loop(s, c_producer, count, ev0)
            IN [s |-> r.s, res |-> Ok(Min(r.s.available, count)), ev |-> r.ev]

\* a seek_ that fails only when the handle owns no frame at all
Tx_seek_lenient(s, count) ==
    IF s.available >= count
    THEN [s |-> s, res |-> Ok(count), ev |-> << >>]
    ELSE LET c_producer == s.u_ring.producer
             ev0 == << Event("u", "load_producer", 0, c_producer, 0) >>
         IN IF c_producer = s.consumer
            THEN IF s.available = 0
                 THEN [s |-> s, res |-> Err("RingFull"), ev |-> ev0]
                 ELSE [s |-> s, res |-> Ok(s.available), ev |-> ev0]
            ELSE LET r == Tx_seek_loop(s, c_producer, count, ev0)
                 IN [s |-> r.s, res |-> Ok(r.s.available), ev |-> r.ev]

\* a seek_ that wakes the kernel up when it finds the ring full
Tx_seek_kick(s, count) ==
    IF s.available >= count
    THEN [s |-> s, res |-> Ok(count), ev |-> << >>]
    ELSE LET c_producer == s.u_ring.producer
             ev0 == << Event("u", "load_producer", 0, c_producer, 0) >>
         IN IF c_producer = s.consumer
            THEN [s |-> s, res |-> Err("RingFull"),
                  ev |-> ev0 \o << Syscall("sendto", 0, MSG_DONTWAIT + MSG_NOSIGNAL) >>]
            ELSE LET r == Tx_seek_loop(s, c_producer, count, ev0)
                 IN [s |-> r.s, res |-> Ok(r.s.available), ev |-> r.ev]

\* Seek_<_TX>::seek_
Tx_seek_(s, count) ==
    IF s.available >= count
    THEN [s |-> s, res |-> Ok(count), ev |-> << >>]
    ELSE LET c_producer == s.u_ring.producer
             ev0 == << Event("u", "load_producer", 0, c_producer, 0) >>
         IN IF c_producer = s.consumer
            THEN [s |-> s, res |-> Err("RingFull"), ev |-> ev0]
            ELSE LET r == Tx_seek_loop(s, c_producer, count, ev0)
                 IN [s |-> r.s, res |-> Ok(r.s.available), ev |-> r.ev]

\* a commit_ that moves the cached producer and leaves the ring's alone
Tx_commit_cached(s, count) ==
    IF s.available < as_u32(count)
    THEN [s |-> s, res |-> Err("NotAvailable"), ev |-> << >>]
    ELSE [s |-> [s EXCEPT !.available = @ - as_u32(count),
                          !.producer = wrapping_add(@, as_u32(count))],
          res |-> Ok(0), ev |-> << >>]

\* a commit_ whose producer does not wrap at 2^32
Tx_commit_nowrap(s, count) ==
    IF s.available < as_u32(count)
    THEN [s |-> s, res |-> Err("NotAvailable"), ev |-> << >>]
    ELSE LET producer1 == s.producer + as_u32(count)
         IN [s |-> [s EXCEPT !.available = @ - as_u32(count),
                             !.producer = producer1,
                             !.x_ring = update_producer(@, producer1)],
             res |-> Ok(0),
             ev |-> << Event("x", "store_producer", 0, producer1, 0) >>]

\* Commit_<_TX>::commit_
Tx_commit_(s, count) ==
    IF s.available < as_u32(count)
    THEN [s |-> s, res |-> Err("NotAvailable"), ev |-> << >>]
    ELSE LET producer1 == wrapping_add(s.producer, as_u32(count))
         IN [s |-> [s EXCEPT !.available = @ - as_u32(count),
                             !.producer = producer1,
                             !.x_ring = update_producer(@, producer1)],
             res |-> Ok(0),
             ev |-> << Event("x", "store_producer", 0, producer1, 0) >>]

\* &mut [u8] / &[u8] into the UMEM: slice::from_raw_parts_mut(ptr + addr, len)
Slice(addr, len) == [some |-> TRUE, addr |-> addr, len |-> len]
NoSlice == [some |-> FALSE, addr |-> 0, len |-> 0]

\* a slice in the caller's hands, with the index its peek was called with
Borrowed(sl, index) ==
    [some |-> sl.some, addr |-> sl.addr, len |-> sl.len,
     index |-> IF sl.some THEN index ELSE 0]

\* Ring<XdpDesc>::mut_bytes_at; a len is below 2^32 in every call, so that
\* `len as u32` is len
mut_bytes_at(ring, index, len) ==
    IF ~(index < FRAME_COUNT)
    THEN [ring |-> ring, res |-> Panic, slice |-> NoSlice, ev |-> << >>]
    ELSE IF ~(len < FRAME_SIZE)
    THEN [ring |-> ring, res |-> Panic, slice |-> NoSlice, ev |-> << >>]
    ELSE LET desc == ring.desc[index]
         IN IF ~(FRAME_SIZE * FRAME_COUNT > desc.addr + len)
            THEN [ring |-> ring, res |-> Panic, slice |-> NoSlice,
                  ev |-> << Event("x", "read_desc", index, desc.addr, desc.len) >>]
            ELSE [ring |-> [ring EXCEPT !.desc[index].len = len],
                  res |-> Ok(len), slice |-> Slice(desc.addr, len),
                  ev |-> << Event("x", "read_desc", index, desc.addr, desc.len),
                            Event("x", "write_desc", index, desc.addr, len) >>]

\* a peek_ that stores len in the descriptor before it looks at len
Tx_peek_len_first(s, index, len) ==
    IF index >= s.available
    THEN [s |-> s, res |-> Err("InvalidIndex"), slice |-> NoSlice, ev |-> << >>]
    ELSE LET x_head == BitAnd(wrapping_add(s.producer, as_u32(index)), s.x_ring.mod_mask)
             ring1 == [s.x_ring EXCEPT !.desc[x_head].len = len]
             ev0 == << Event("x", "write_desc", x_head, ring1.desc[x_head].addr, len) >>
             r == mut_bytes_at(ring1, x_head, len)
         IN IF len > FRAME_SIZE
            THEN [s |-> [s EXCEPT !.x_ring = ring1], res |-> Err("InvalidLength"),
                  slice |-> NoSlice, ev |-> ev0]
            ELSE [s |-> [s EXCEPT !.x_ring = r.ring], res |-> r.res,
                  slice |-> r.slice, ev |-> ev0 \o r.ev]

\* a peek_ that takes the descriptor at the producer whatever index is
Tx_peek_head(s, index, len) ==
    IF index >= s.available
    THEN [s |-> s, res |-> Err("InvalidIndex"), slice |-> NoSlice, ev |-> << >>]
    ELSE IF len > FRAME_SIZE
    THEN [s |-> s, res |-> Err("InvalidLength"), slice |-> NoSlice, ev |-> << >>]
    ELSE LET x_head == BitAnd(s.producer, s.x_ring.mod_mask)
             ring1 == [s.x_ring EXCEPT !.desc[x_head].len = len]
             ev0 == << Event("x", "write_desc", x_head, ring1.desc[x_head].addr, len) >>
             r == mut_bytes_at(ring1, x_head, len)
         IN [s |-> [s EXCEPT !.x_ring = r.ring], res |-> r.res,
             slice |-> r.slice, ev |-> ev0 \o r.ev]

\* Socket<_TX>::peek_
Tx_peek_(s, index, len) ==
    IF index >= s.available
    THEN [s |-> s, res |-> Err("InvalidIndex"), slice |-> NoSlice, ev |-> << >>]
    ELSE IF len > FRAME_SIZE
    THEN [s |-> s, res |-> Err("InvalidLength"), slice |-> NoSlice, ev |-> << >>]
    ELSE LET x_head == BitAnd(wrapping_add(s.producer, as_u32(index)), s.x_ring.mod_mask)
             ring1 == [s.x_ring EXCEPT !.desc[x_head].len = len]
             ev0 == << Event("x", "write_desc", x_head, ring1.desc[x_head].addr, len) >>
             r == mut_bytes_at(ring1, x_head, len)
         IN [s |-> [s EXCEPT !.x_ring = r.ring], res |-> r.res,
             slice |-> r.slice, ev |-> ev0 \o r.ev]

\* ------------------------------------------------- RX: seek / peek / commit

\* Seek_<_RX>::seek_
Rx_seek_(s, count) ==
    IF s.available >= count
    THEN [s |-> s, res |-> Ok(count), ev |-> << >>]
    ELSE LET x_producer == s.x_ring.producer
             ev0 == << Event("x", "load_producer", 0, x_producer, 0) >>
         IN IF x_producer = s.consumer
            THEN [s |-> s, res |-> Err("RingEmpty"), ev |-> ev0]
            ELSE LET available1 == wrapping_sub(x_producer, s.consumer)
                 IN [s |-> [s EXCEPT !.available = available1],
                     res |-> Ok(IF available1 < as_u32(count) THEN available1
                                ELSE as_u32(count)),
                     ev |-> ev0]

\* the for loop of Commit_<_RX>::commit_: k iterations left
RECURSIVE Rx_commit_loop(_, _, _)
Rx_commit_loop(s, k, ev) ==
    IF k = 0 THEN [s |-> s, ev |-> ev]
    ELSE LET x_head == BitAnd(s.consumer, s.x_ring.mod_mask)
             addr == s.x_ring.desc[x_head].addr
             f_head == BitAnd(s.producer, s.x_ring.mod_mask)
             s1 == [s EXCEPT !.u_ring.desc[f_head] = addr,
                             !.consumer = wrapping_add(@, 1),
                             !.producer = wrapping_add(@, 1)]
         IN Rx_commit_loop(s1, k - 1,
                ev \o << Event("x", "read_desc", x_head, addr, s.x_ring.desc[x_head].len),
                         Event("u", "write_desc", f_head, addr, 0) >>)

\* Commit_<_RX>::commit_
Rx_commit_(s, count) ==
    IF s.available < as_u32(count)
    THEN [s |-> s, res |-> Err("NotAvailable"), ev |-> << >>]
    ELSE LET r == Rx_commit_loop(s, as_u32(count), << >>)
             s1 == [r.s EXCEPT !.available = @ - as_u32(count),
                               !.x_ring = update_consumer(@, r.s.consumer),
                               !.u_ring = update_producer(@, r.s.producer)]
         IN [s |-> s1, res |-> Ok(0),
             ev |-> r.ev \o << Event("x", "store_consumer", 0, s1.consumer, 0),
                               Event("u", "store_producer", 0, s1.producer, 0) >>]

\* a peek_ that lets the index one past the owned window through
Rx_peek_past(s, index) ==
    IF index > s.available
    THEN [s |-> s, res |-> Err("InvalidIndex"), slice |-> NoSlice, ev |-> << >>]
    ELSE LET x_head == BitAnd(wrapping_add(s.consumer, as_u32(index)), s.x_ring.mod_mask)
             len == s.x_ring.desc[x_head].len
             r == mut_bytes_at(s.x_ring, x_head, len)
         IN [s |-> [s EXCEPT !.x_ring = r.ring], res |-> r.res, slice |-> r.slice,
             ev |-> << Event("x", "read_desc", x_head, s.x_ring.desc[x_head].addr, len) >>
                    \o r.ev]

\* Socket<_RX>::peek_
Rx_peek_(s, index) ==
    IF index >= s.available
    THEN [s |-> s, res |-> Err("InvalidIndex"), slice |-> NoSlice, ev |-> << >>]
    ELSE LET x_head == BitAnd(wrapping_add(s.consumer, as_u32(index)), s.x_ring.mod_mask)
             len == s.x_ring.desc[x_head].len
             r == mut_bytes_at(s.x_ring, x_head, len)
         IN [s |-> [s EXCEPT !.x_ring = r.ring], res |-> r.res, slice |-> r.slice,
             ev |-> << Event("x", "read_desc", x_head, s.x_ring.desc[x_head].addr, len) >>
                    \o r.ev]

\* ------------------------------------------------------------------ state

VARIABLES
    tx,       \* the TxSocket (inner = FALSE: the direction has none)
    rx,       \* the RxSocket
    umem,     \* Inner.umem: the tracked bytes of every frame
    kernel,   \* frames the kernel holds: taken from TX, not yet completed (tx);
              \* taken from Fill, not yet delivered (rx)
    slice,    \* the &mut [u8] the last TX peek returned, while it is borrowed
    last      \* the last step: the call, its arguments, its Result, its ring
              \* accesses, and the call before it

vars == << tx, rx, umem, kernel, slice, last >>

\* the byte addresses of the UMEM whose content is tracked
Tracked ==
    {f * FRAME_SIZE + o : f \in 0 .. FRAME_COUNT - 1, o \in 0 .. MaxPayload - 1}

\* the bytes of the UMEM at addr .. addr + len - 1, as far as they are tracked
UmemRead(mem, addr, len) ==
    [k \in 1 .. len |-> IF addr + k - 1 \in Tracked THEN mem[addr + k - 1] ELSE 0]

\* the count arguments of seek and commit
Counts == 0 .. MaxIndex + 1
\* the index arguments of peek: the head of the window, the one behind it,
\* and one far into or past the window
Indexes == {0, 1, MaxIndex}

\* a call without its ring accesses
Short(l) ==
    [dir |-> l.dir, op |-> l.op, n |-> l.n, index |-> l.index, len |-> l.len,
     data |-> l.data, res |-> l.res]

NoPrev ==
    [dir |-> "-", op |-> "-", n |-> 0, index |-> 0, len |-> 0,
     data |-> << >>, res |-> Ok(0)]

\* the record of a call. prev is the call right before it on the same handle
\* when that was a seek with the same count, or a write of a slice before a
\* commit; in every other case it is NoPrev
Log(dir, op, n, index, len, data, res, ev) ==
    [dir |-> dir, op |-> op, n |-> n, index |-> index, len |-> len,
     data |-> data, res |-> res, ev |-> ev,
     prev |-> IF \/ (last.dir = dir /\ last.op = "seek" /\ last.n = n
                      /\ op \in {"seek", "commit"})
                 \/ (last.dir = dir /\ last.op = "write" /\ op = "commit")
              THEN Short(last) ELSE NoPrev]

\* the state create_socket(direction) returns in; the UMEM is a fresh
\* anonymous mapping
InitDir(direction) ==
    LET c == create_socket(direction)
    IN /\ tx = c.tx.sock
       /\ rx = c.rx.sock
       /\ umem = [a \in Tracked |-> 0]
       /\ kernel = [tx |-> EmptyBag, rx |-> EmptyBag]
       /\ slice = Borrowed(NoSlice, 0)
       /\ last = [dir |-> "-", op |-> "create", n |-> 0, index |-> 0, len |-> 0,
                  data |-> << >>, res |-> Ok(0), ev |-> << >>, prev |-> NoPrev]

\* ----------------------------------------------------------- TX handle steps

TxSeek(n) ==
    /\ tx.inner
    /\ LET r == Tx_seek_(tx, n)
       IN /\ tx' = r.s
          /\ last' = Log("tx", "seek", n, 0, 0, << >>, r.res, r.ev)
    /\ slice' = Borrowed(NoSlice, 0)
    /\ UNCHANGED << rx, umem, kernel >>

TxPeek(i, len) ==
    /\ tx.inner
    /\ LET r == Tx_peek_(tx, i, len)
       IN /\ tx' = r.s
          /\ slice' = Borrowed(r.slice, i)
          /\ last' = Log("tx", "peek", 0, i, len, << >>, r.res, r.ev)
    /\ UNCHANGED << rx, umem, kernel >>

\* the caller fills the borrowed slice with data (buf.copy_from_slice) and
\* lets go of it
TxWrite(data) ==
    /\ slice.some
    /\ Len(data) = slice.len
    /\ umem' = [a \in Tracked |->
                   IF a >= slice.addr /\ a < slice.addr + slice.len
                   THEN data[a - slice.addr + 1] ELSE umem[a]]
    /\ last' = Log("tx", "write", 0, slice.index, slice.len, data, Ok(0), << >>)
    /\ slice' = Borrowed(NoSlice, 0)
    /\ UNCHANGED << tx, rx, kernel >>

TxCommit(n) ==
    /\ tx.inner
    /\ LET r == Tx_commit_(tx, n)
       IN /\ r.res.tag = "Ok" => tx.producer + as_u32(n) <= MaxIndex
          /\ tx' = r.s
          /\ last' = Log("tx", "commit", n, 0, 0, << >>, r.res, r.ev)
    /\ slice' = Borrowed(NoSlice, 0)
    /\ UNCHANGED << rx, umem, kernel >>

\* ----------------------------------------------------------- RX handle steps

RxSeek(n) ==
    /\ rx.inner
    /\ LET r == Rx_seek_(rx, n)
       IN /\ rx' = r.s
          /\ last' = Log("rx", "seek", n, 0, 0, << >>, r.res, r.ev)
    /\ UNCHANGED << tx, umem, kernel, slice >>

RxPeek(i) ==
    /\ rx.inner
    /\ LET r == Rx_peek_(rx, i)
       IN /\ rx' = r.s
          /\ last' = Log("rx", "peek", 0, i, r.slice.len,
                         UmemRead(umem, r.slice.addr, r.slice.len), r.res, r.ev)
    /\ UNCHANGED << tx, umem, kernel, slice >>

RxCommit(n) ==
    /\ rx.inner
    /\ LET r == Rx_commit_(rx, n)
       IN /\ r.res.tag = "Ok" => rx.consumer + as_u32(n) <= MaxIndex
          /\ rx' = r.s
          /\ last' = Log("rx", "commit", n, 0, 0, << >>, r.res, r.ev)
    /\ UNCHANGED << tx, umem, kernel, slice >>

\* --------------------------------------------------- the kernel, TX side

KernelLog(op) ==
    [dir |-> "kernel", op |-> op, n |-> 0, index |-> 0, len |-> 0,
     data |-> << >>, res |-> Ok(0), ev |-> << >>, prev |-> NoPrev]

\* the kernel takes the next committed descriptor off the TX ring
KernelTxConsume ==
    /\ tx.x_ring.mapped
    /\ tx.x_ring.consumer # tx.x_ring.producer
    /\ LET d == tx.x_ring.desc[BitAnd(tx.x_ring.consumer, tx.x_ring.mod_mask)]
       IN kernel' = [kernel EXCEPT !.tx = @ (+) SetToBag({d.addr})]
    /\ tx' = [tx EXCEPT !.x_ring.consumer = wrapping_add(@, 1)]
    /\ last' = KernelLog("tx_consume")
    /\ UNCHANGED << rx, umem, slice >>

\* the kernel posts the address of a transmitted frame to the Completion ring
KernelTxComplete ==
    /\ tx.u_ring.mapped
    /\ wrapping_sub(tx.u_ring.producer, tx.u_ring.consumer) < tx.u_ring.len
    /\ \E addr \in BagToSet(kernel.tx) :
          /\ kernel' = [kernel EXCEPT !.tx = @ (-) SetToBag({addr})]
          /\ tx' = [tx EXCEPT
                      !.u_ring.desc[BitAnd(tx.u_ring.producer, tx.u_ring.mod_mask)] = addr,
                      !.u_ring.producer = wrapping_add(@, 1)]
    /\ last' = KernelLog("tx_complete")
    /\ UNCHANGED << rx, umem, slice >>

\* --------------------------------------------------- the kernel, RX side

\* the kernel takes the next frame address off the Fill ring
KernelRxTake ==
    /\ rx.u_ring.mapped
    /\ rx.u_ring.consumer # rx.u_ring.producer
    /\ rx.u_ring.consumer < MaxIndex
    /\ LET addr == rx.u_ring.desc[BitAnd(rx.u_ring.consumer, rx.u_ring.mod_mask)]
       IN kernel' = [kernel EXCEPT !.rx = @ (+) SetToBag({addr})]
    /\ rx' = [rx EXCEPT !.u_ring.consumer = wrapping_add(@, 1)]
    /\ last' = KernelLog("rx_take")
    /\ UNCHANGED << tx, umem, slice >>

\* the kernel receives a packet of len bytes into a frame it holds and
\* publishes its descriptor on the RX ring
KernelRxDeliver(len) ==
    /\ rx.x_ring.mapped
    /\ rx.x_ring.producer < MaxIndex
    /\ wrapping_sub(rx.x_ring.producer, rx.x_ring.consumer) < rx.x_ring.len
    /\ \E addr \in BagToSet(kernel.rx) :
          /\ kernel' = [kernel EXCEPT !.rx = @ (-) SetToBag({addr})]
          /\ rx' = [rx EXCEPT
                      !.x_ring.desc[BitAnd(rx.x_ring.producer, rx.x_ring.mod_mask)] =
                          XdpDesc(addr, len, 0),
                      !.x_ring.producer = wrapping_add(@, 1)]
    /\ last' = KernelLog("rx_deliver")
    /\ UNCHANGED << tx, umem, slice >>

\* ---------------------------------------------------------- specifications

Next ==
    \/ \E n \in Counts : TxSeek(n)
    \/ \E i \in Indexes, len \in {0, FRAME_SIZE + 1} : TxPeek(i, len)
    \/ \E n \in Counts : TxCommit(n)
    \/ KernelTxConsume
    \/ KernelTxComplete
    \/ \E n \in Counts : RxSeek(n)
    \/ \E i \in Indexes : RxPeek(i)
    \/ \E n \in Counts : RxCommit(n)
    \/ KernelRxTake
    \/ KernelRxDeliver(1)

\* a Tx-only or an Rx-only socket, the calls of its handle and the kernel
Spec == (InitDir("Tx") \/ InitDir("Rx")) /\ [][Next]_vars

\* ------------------------------------------------------- frame ownership

\* the entries of a ring's slots from index `from`, count of them
RingSpan(desc, from, count, mask) ==
    [k \in 1 .. count |-> desc[BitAnd(wrapping_add(from, k - 1), mask)]]

\* how often a occurs in a sequence
Occ(seq, a) == Cardinality({k \in DOMAIN seq : seq[k] = a})

\* the frame offsets Ring<XdpDesc>::fill seeds the TX ring with
TxSeeded == {i * FRAME_SIZE : i \in 0 .. tx.x_ring.len - 1}

\* the descriptors peek can address: [producer, producer + available)
TxWindow == RingSpan(tx.x_ring.desc, tx.producer, tx.available, tx.x_ring.mod_mask)

\* committed and not yet taken by the kernel
TxPending ==
    RingSpan(tx.x_ring.desc, tx.x_ring.consumer,
             wrapping_sub(tx.x_ring.producer, tx.x_ring.consumer), tx.x_ring.mod_mask)

\* posted to Completion and not yet reclaimed
TxCompleted ==
    RingSpan(tx.u_ring.desc, tx.consumer,
             wrapping_sub(tx.u_ring.producer, tx.consumer), tx.u_ring.mod_mask)

TxCopies(a) ==
    Occ([k \in DOMAIN TxWindow |-> TxWindow[k].addr], a)
    + Occ([k \in DOMAIN TxPending |-> TxPending[k].addr], a)
    + CopiesIn(a, kernel.tx)
    + Occ(TxCompleted, a)

\* C1: TX frame conservation. Every frame offset seeded at construction is,
\* in every reachable state, exactly once among the descriptors of the
\* available window, the frames in kernel custody and the unreclaimed
\* Completion entries.
C1_TxFrameConservation ==
    tx.inner => \A a \in TxSeeded : TxCopies(a) = 1

\* the frame offsets the Fill ring is seeded with
RxSeeded == {(i + rx.skip_frames) * FRAME_SIZE : i \in 0 .. rx.u_ring.len - 1}

\* posted to Fill and not yet taken by the kernel
RxFillable ==
    RingSpan(rx.u_ring.desc, rx.u_ring.consumer,
             wrapping_sub(rx.u_ring.producer, rx.u_ring.consumer), rx.u_ring.mod_mask)

\* delivered by the kernel and not yet committed back
RxFilled ==
    RingSpan(rx.x_ring.desc, rx.consumer,
             wrapping_sub(rx.x_ring.producer, rx.consumer), rx.x_ring.mod_mask)

RxCopies(a) ==
    Occ(RxFillable, a)
    + Occ([k \in DOMAIN RxFilled |-> RxFilled[k].addr], a)
    + CopiesIn(a, kernel.rx)

\* C2: RX frame conservation. Every frame offset seeded into the Fill ring is,
\* in every reachable state, in exactly one of: the Fill ring between its
\* consumer and producer, the RX ring between the cached consumer and the
\* kernel's producer, the kernel's in-flight set.
C2_RxFrameConservation ==
    rx.inner => \A a \in RxSeeded : RxCopies(a) = 1

\* --------------------------------------------------------- published words

\* new is old moved forward by at most len (mod 2^32): no regression
Forward(old, new, len) == wrapping_sub(new, old) <= len

\* C3: index monotonicity. No index word the user side publishes (TX
\* producer, Completion consumer, RX consumer, Fill producer) regresses, and
\* the Fill producer, f_len at construction, moves forward by n on every RX
\* commit(n).
C3_PublishedIndexesMonotonic ==
    [][/\ Forward(tx.x_ring.producer, tx'.x_ring.producer, tx.x_ring.len)
       /\ Forward(tx.u_ring.consumer, tx'.u_ring.consumer, tx.u_ring.len)
       /\ Forward(rx.x_ring.consumer, rx'.x_ring.consumer, rx.x_ring.len)
       /\ Forward(rx.u_ring.producer, rx'.u_ring.producer, rx.u_ring.len)
       /\ (last'.dir = "rx" /\ last'.op = "commit" /\ last'.res.tag = "Ok")
             => rx'.u_ring.producer = wrapping_add(rx.u_ring.producer, last'.n)]_vars

\* ------------------------------------------------------------ call results

\* the RingError values seek, peek and commit return
RingErrors == {"RingFull", "RingEmpty", "NotAvailable", "InvalidIndex", "InvalidLength"}

\* the step is a call of op on the handle of direction dir
Called(dir, op) == last'.dir = dir /\ last'.op = op

\* C4: state unchanged on failure. A seek that returns RingFull/RingEmpty, a
\* commit that returns NotAvailable and a peek that returns InvalidIndex or
\* InvalidLength leave the cached producer, consumer and available, every
\* published ring word, every ring slot and every frame byte as they were.
C4_StateUnchangedOnFailure ==
    [][last'.res.tag \in RingErrors => (tx' = tx /\ rx' = rx /\ umem' = umem)]_vars

\* a TX peek inside the window was refused for its length
C4_Witness ==
    /\ last.dir = "tx" /\ last.op = "peek"
    /\ last.res.tag = "InvalidLength"
    /\ last.index < tx.available

\* the Completion entries a TX seek finds: producer - cached consumer
TxReclaimable(s) == wrapping_sub(s.u_ring.producer, s.consumer)

\* the ring accesses of the j-th reclaim (from 0) of a seek on handle s are
\* ev[2 + 3j .. 4 + 3j]: the Completion slot read, the Completion consumer
\* published, a descriptor of the address with len 0 written to the TX ring
ReclaimStep(s, ev, j) ==
    LET c_head == BitAnd(wrapping_add(s.consumer, j), s.u_ring.mod_mask)
        addr == s.u_ring.desc[c_head]
        w == ev[4 + 3 * j]
    IN /\ ev[2 + 3 * j] = Event("u", "read_desc", c_head, addr, 0)
       /\ ev[3 + 3 * j] = Event("u", "store_consumer", 0, wrapping_add(s.consumer, j + 1), 0)
       /\ w.ring = "x" /\ w.kind = "write_desc" /\ w.val = addr /\ w.len = 0

\* C5: TX seek(n). With available >= n it returns n and reads and writes no
\* ring. Otherwise, with Completion entries to reclaim, it reclaims
\* min(n - available, entries) of them one at a time: each address is staged as
\* a descriptor {addr, 0, 0}, cached consumer and available go up by one, the
\* Completion consumer is published; it returns min(available after, n).
C5_TxSeek ==
    [][Called("tx", "seek") =>
         LET n == last'.n
             k == Min(n - tx.available, TxReclaimable(tx))
             ev == last'.ev
         IN IF tx.available >= n
            THEN ev = << >> /\ tx' = tx /\ last'.res = Ok(n)
            ELSE TxReclaimable(tx) > 0 =>
                 /\ Len(ev) = 1 + 3 * k
                 /\ ev[1] = Event("u", "load_producer", 0, tx.u_ring.producer, 0)
                 /\ \A j \in 0 .. k - 1 :
                       /\ ReclaimStep(tx, ev, j)
                       /\ tx'.x_ring.desc[ev[4 + 3 * j].at].len = 0
                       /\ tx'.x_ring.desc[ev[4 + 3 * j].at].options = 0
                 /\ tx'.x_ring.desc[ev[Len(ev)].at] = XdpDesc(ev[Len(ev)].val, 0, 0)
                 /\ tx'.consumer = wrapping_add(tx.consumer, k)
                 /\ tx'.available = tx.available + k
                 /\ tx'.u_ring = update_consumer(tx.u_ring, tx'.consumer)
                 /\ tx'.producer = tx.producer
                 /\ tx'.x_ring.producer = tx.x_ring.producer
                 /\ tx'.x_ring.consumer = tx.x_ring.consumer
                 /\ last'.res = Ok(Min(tx'.available, n))]_vars

\* a seek drained the Completion ring in two reclaims and fell short of n
C5_Witness ==
    /\ last.dir = "tx" /\ last.op = "seek"
    /\ Len(last.ev) = 7
    /\ last.res.tag = "Ok" /\ last.res.val < last.n
    /\ TxReclaimable(tx) = 0

\* S1: a Tx-only handle, all x_len frames committed and all of them moved
\* into the Completion ring by the kernel
S1_AllCompleted ==
    /\ tx.inner /\ ~rx.inner
    /\ tx.producer = tx.x_ring.len
    /\ tx.available = 0
    /\ tx.consumer = 0
    /\ TxReclaimable(tx) = tx.x_ring.len

\* C6 as stated: in S1 a single seek(1) returns 1, leaves available = x_len
\* and the cached consumer advanced by x_len.
C6_SeekOneReclaimsAll ==
    [][(S1_AllCompleted /\ Called("tx", "seek") /\ last'.n = 1) =>
         /\ last'.res = Ok(1)
         /\ tx'.available = tx.x_ring.len
         /\ tx'.consumer = wrapping_add(tx.consumer, tx.x_ring.len)]_vars

\* C6: in S1 a single seek(1) returns 1 and reclaims one frame: available = 1,
\* cached consumer advanced by 1, x_len - 1 entries left in the Completion
\* ring.
C6_SeekOneReclaimsOne ==
    [][(S1_AllCompleted /\ Called("tx", "seek") /\ last'.n = 1) =>
         /\ last'.res = Ok(1)
         /\ tx'.available = 1
         /\ tx'.consumer = wrapping_add(tx.consumer, 1)
         /\ tx'.u_ring.consumer = tx'.consumer
         /\ TxReclaimable(tx') = tx.x_ring.len - 1]_vars

\* the state right after that seek(1)
C6_Witness ==
    /\ tx.inner /\ ~rx.inner
    /\ last.dir = "tx" /\ last.op = "seek" /\ last.n = 1 /\ last.res = Ok(1)
    /\ tx.producer = tx.x_ring.len
    /\ tx.available = 1
    /\ tx.consumer = 1
    /\ TxReclaimable(tx) = tx.x_ring.len - 1

\* the step is a TX seek(n) right after a TX seek(n): nothing, the kernel
\* included, ran in between
SeekAgain ==
    /\ Called("tx", "seek")
    /\ last.dir = "tx" /\ last.op = "seek" /\ last.n = last'.n

\* C7 as stated: with no kernel progress between two consecutive TX seek(n),
\* the second returns the result of the first and leaves cached indices,
\* published indices and ring slots as the first left them.
C7_SeekIdempotent ==
    [][SeekAgain => (last'.res = last.res /\ tx' = tx)]_vars

\* C7: with no kernel progress between two consecutive TX seek(n), the second
\* leaves cached indices, published indices and ring slots as the first left
\* them; it returns the result of the first, except after a first call that
\* drained the Completion ring short of n (Ok(k), k < n), when it returns
\* RingFull.
C7_SeekRepeated ==
    [][SeekAgain =>
         /\ tx' = tx
         /\ last'.res = IF last.res.tag = "Ok" /\ last.res.val < last.n
                        THEN Err("RingFull") ELSE last.res]_vars

\* a seek(n) reclaimed what there was and returned k < n; the seek(n) right
\* after it returned RingFull
C7_Witness ==
    /\ last.dir = "tx" /\ last.op = "seek"
    /\ last.prev.dir = "tx" /\ last.prev.op = "seek" /\ last.prev.n = last.n
    /\ last.prev.res.tag = "Ok" /\ last.prev.res.val < last.n
    /\ last.res.tag = "RingFull"
    /\ tx.consumer >= 1

\* C8 as stated: TX seek(n) returns RingFull only when the Completion ring is
\* empty (its producer equals the cached consumer) and cached available = 0.
C8_RingFullOnlyWhenNoneOwned ==
    [][(Called("tx", "seek") /\ last'.res.tag = "RingFull") =>
         (tx.u_ring.producer = tx.consumer /\ tx.available = 0)]_vars

\* S2: every frame committed and no kernel progress
S2_AllCommitted ==
    /\ tx.inner
    /\ tx.producer = tx.x_ring.len
    /\ tx.available = 0
    /\ tx.x_ring.consumer = 0
    /\ tx.u_ring.producer = 0

\* C8: TX seek(n) returns RingFull exactly when the handle owns fewer than n
\* frames and the Completion ring is empty (its producer equals the cached
\* consumer); in particular seek(1) in S2 returns RingFull.
C8_RingFullCondition ==
    [][Called("tx", "seek") =>
         /\ last'.res.tag = "RingFull"
               <=> (tx.available < last'.n /\ tx.u_ring.producer = tx.consumer)
         /\ (S2_AllCommitted /\ last'.n = 1) => last'.res.tag = "RingFull"]_vars

\* seek(1) returned RingFull in S2
C8_Witness ==
    /\ S2_AllCommitted
    /\ last.dir = "tx" /\ last.op = "seek" /\ last.n = 1
    /\ last.res.tag = "RingFull"

\* C9: TX commit accounting. A commit(n) right after a seek(n) that returned
\* k >= n succeeds, decreases cached available by n, increases the cached
\* producer by n (mod 2^32) and publishes it as the TX ring's producer; the
\* Completion ring and the cached consumer stay as they were.
C9_TxCommitAccounting ==
    [][(/\ Called("tx", "commit")
        /\ last.dir = "tx" /\ last.op = "seek" /\ last.n = last'.n
        /\ last.res.tag = "Ok" /\ last.res.val >= last'.n) =>
         /\ last'.res.tag = "Ok"
         /\ tx'.available = tx.available - last'.n
         /\ tx'.producer = wrapping_add(tx.producer, last'.n)
         /\ tx'.x_ring.producer = tx'.producer
         /\ tx'.x_ring.consumer = tx.x_ring.consumer
         /\ tx'.x_ring.desc = tx.x_ring.desc
         /\ tx'.u_ring = tx.u_ring
         /\ tx'.consumer = tx.consumer]_vars

\* a commit(n), n >= 2, right after seek(n) returned n, from a producer
\* that had moved before
C9_Witness ==
    /\ last.dir = "tx" /\ last.op = "commit" /\ last.res.tag = "Ok"
    /\ last.n >= 2
    /\ last.prev.dir = "tx" /\ last.prev.op = "seek" /\ last.prev.res = Ok(last.n)
    /\ tx.producer > last.n
    /\ tx.x_ring.producer = tx.producer

\* ------------------------------------------------------------ TX payload

\* the len arguments of a TX peek that returns a slice
PeekLens == 1 .. MaxPayload

\* the payloads of l bytes the sender writes: one byte repeated, or a first
\* byte that differs from the rest
Payloads(l) ==
    {[k \in 1 .. l |-> 171], [k \in 1 .. l |-> IF k = 1 THEN 205 ELSE 171]}

\* a sender that takes a slice of a frame it owns, fills it and commits the
\* head frame, while the kernel takes the committed descriptors off the TX
\* ring; it sends MaxSent frames in all and takes slices of those only
TxDataPeek(i, len) == tx.producer + i < MaxSent /\ TxPeek(i, len)

TxDataCommit == tx.producer < MaxSent /\ TxCommit(1)

NextTxData ==
    \/ \E i \in {0, 1}, len \in PeekLens : TxDataPeek(i, len)
    \/ \E data \in UNION {Payloads(l) : l \in PeekLens} : TxWrite(data)
    \/ TxDataCommit
    \/ KernelTxConsume

SpecTxData == InitDir("Tx") /\ [][NextTxData]_vars

\* C10: TX peek-write round trip. peek(i, L) returns the slice of the
\* descriptor at slot (producer + i) & mask and stores L as its len; after
\* peek(0, L), writing bytes B into the slice and commit(1), the descriptor at
\* slot (old producer & mask), which the commit publishes to the kernel, has
\* len = L and an addr whose first L bytes are B.
C10_TxPeekWriteRoundTrip ==
    [][/\ (Called("tx", "peek") /\ last'.res.tag = "Ok") =>
            LET x_head == BitAnd(wrapping_add(tx.producer, last'.index), tx.x_ring.mod_mask)
            IN /\ slice' = Borrowed(Slice(tx.x_ring.desc[x_head].addr, last'.len),
                                    last'.index)
               /\ tx' = [tx EXCEPT !.x_ring.desc[x_head].len = last'.len]
       /\ (/\ Called("tx", "commit") /\ last'.n = 1
           /\ last.dir = "tx" /\ last.op = "write" /\ last.index = 0) =>
            LET desc == tx'.x_ring.desc[BitAnd(tx.producer, tx.x_ring.mod_mask)]
            IN /\ last'.res.tag = "Ok"
               /\ tx'.x_ring.producer = wrapping_add(tx.producer, 1)
               /\ desc.len = last.len
               /\ UmemRead(umem', desc.addr, last.len) = last.data]_vars

\* the second frame sent was filled through peek(0, MaxPayload) and committed
C10_Witness ==
    /\ last.dir = "tx" /\ last.op = "commit" /\ last.n = 1 /\ last.res.tag = "Ok"
    /\ last.prev.op = "write" /\ last.prev.index = 0
    /\ last.prev.len = MaxPayload
    /\ last.prev.data[1] # last.prev.data[MaxPayload]
    /\ tx.producer = 2

\* ------------------------------------------------------------- RX refill

\* the step is a commit(n) on the handle of direction dir right after a
\* seek(n) on it that succeeded
CommitAfterSeek(dir) ==
    /\ Called(dir, "commit")
    /\ last.dir = dir /\ last.op = "seek" /\ last.n = last'.n
    /\ last.res.tag = "Ok"

\* C11: RX refill. An RX commit(n) right after a seek(n) that succeeded with
\* at least n available advances the published Fill producer by exactly n,
\* leaves in the n Fill slots before the new producer, in order, the addresses
\* of the n RX descriptors consumed, publishes the RX consumer advanced by n
\* and decreases available by n.
C11_RxRefill ==
    [][(CommitAfterSeek("rx") /\ rx.available >= last'.n) =>
         LET n == last'.n
             f_old == rx.u_ring.producer
         IN /\ last'.res.tag = "Ok"
            /\ rx'.u_ring.producer = wrapping_add(f_old, n)
            /\ \A j \in 0 .. n - 1 :
                  rx'.u_ring.desc[BitAnd(wrapping_add(f_old, j), rx.u_ring.mod_mask)]
                     = rx.x_ring.desc[BitAnd(wrapping_add(rx.consumer, j),
                                             rx.x_ring.mod_mask)].addr
            /\ rx'.x_ring.consumer = wrapping_add(rx.x_ring.consumer, n)
            /\ rx'.available = rx.available - n]_vars

\* ------------------------------------------------------------ RX payload

\* the free entries of the RX ring as the kernel computes them:
\* nentries - (producer - consumer), in u32
KernelRxFree == wrapping_sub(rx.x_ring.len, wrapping_sub(rx.x_ring.producer, rx.x_ring.consumer))

\* the kernel receives the packet data into a frame it holds and publishes
\* its descriptor, with the packet's length, on the RX ring; the step's record
\* counts the packets published in a row (n)
KernelRxReceive(data) ==
    /\ rx.x_ring.mapped
    /\ rx.x_ring.producer < MaxReceived
    /\ KernelRxFree # 0
    /\ \E addr \in BagToSet(kernel.rx) :
          /\ kernel' = [kernel EXCEPT !.rx = @ (-) SetToBag({addr})]
          /\ umem' = [a \in Tracked |->
                         IF a >= addr /\ a < addr + Len(data)
                         THEN data[a - addr + 1] ELSE umem[a]]
          /\ rx' = [rx EXCEPT
                      !.x_ring.desc[BitAnd(rx.x_ring.producer, rx.x_ring.mod_mask)] =
                          XdpDesc(addr, Len(data), 0),
                      !.x_ring.producer = wrapping_add(@, 1)]
    /\ last' = [KernelLog("rx_receive") EXCEPT
                  !.n = IF last.op = "rx_receive" THEN last.n + 1 ELSE 1]
    /\ UNCHANGED << tx, slice >>

\* a receiver that seeks, reads and commits packets with payload
NextRxData ==
    \/ KernelRxTake
    \/ \E data \in UNION {Payloads(l) : l \in PeekLens} : KernelRxReceive(data)
    \/ \E n \in {1, 2, FRAME_COUNT + 1} : RxSeek(n)
    \/ \E i \in {0, 1} : RxPeek(i)
    \/ \E n \in {1, 2} : RxCommit(n)

SpecRxData == InitDir("Rx") /\ [][NextRxData]_vars

\* the i-th descriptor from the cached consumer of handle s
RxDescAt(s, i) ==
    s.x_ring.desc[BitAnd(wrapping_add(s.consumer, i), s.x_ring.mod_mask)]

\* C12: RX seek(n). With available >= n it returns n. Otherwise it loads the
\* RX producer and returns RingEmpty when that is the cached consumer, else
\* sets available = producer - consumer (mod 2^32) and returns
\* min(available, n). After the kernel has published k descriptors to a handle
\* with none available, seek(k) returns k, and peek(i), i < k, returns the
\* bytes of the i-th published descriptor with that descriptor's length.
C12_RxSeek ==
    [][/\ Called("rx", "seek") =>
            LET n == last'.n
                pending == wrapping_sub(rx.x_ring.producer, rx.consumer)
            IN /\ IF rx.available >= n
                  THEN last'.res = Ok(n) /\ rx' = rx /\ last'.ev = << >>
                  ELSE /\ last'.ev = << Event("x", "load_producer", 0,
                                               rx.x_ring.producer, 0) >>
                       /\ IF pending = 0
                          THEN last'.res = Err("RingEmpty") /\ rx' = rx
                          ELSE /\ rx' = [rx EXCEPT !.available = pending]
                               /\ last'.res = Ok(Min(pending, n))
               /\ (rx.available = 0 /\ last.op = "rx_receive" /\ last.n = n) =>
                     /\ last'.res = Ok(n)
                     /\ rx'.available >= n
                     /\ \A i \in 0 .. n - 1 :
                           RxDescAt(rx', i) =
                              rx.x_ring.desc[BitAnd(wrapping_sub(rx.x_ring.producer, n - i),
                                                    rx.x_ring.mod_mask)]
       /\ (Called("rx", "peek") /\ last'.index < rx.available) =>
            LET desc == RxDescAt(rx, last'.index)
            IN /\ last'.res = Ok(desc.len)
               /\ last'.len = desc.len
               /\ last'.data = UmemRead(umem, desc.addr, desc.len)
               /\ rx' = rx]_vars

\* ------------------------------------------------------- initial ownership

\* the handle of the direction has been created and nothing has run since
Fresh(s) == last.op = "create" /\ s.inner

\* C13: Initial ownership. A fresh TX handle owns every TX frame: available =
\* x_len, producer = consumer = 0. A fresh RX handle owns none: the Fill
\* producer is published as f_len and nothing is peekable or committable, so
\* seek(1) on a fresh RX handle returns RingEmpty.
C13_InitialOwnership ==
    [][/\ Fresh(tx) =>
            /\ tx.available = tx.x_ring.len
            /\ tx.producer = 0 /\ tx.consumer = 0
       /\ Fresh(rx) =>
            /\ rx.u_ring.producer = rx.u_ring.len
            /\ (Called("rx", "seek") /\ last'.n = 1) =>
                  last'.res = Err("RingEmpty")
            /\ Called("rx", "peek") => last'.res = Err("InvalidIndex")
            /\ (Called("rx", "commit") /\ last'.n >= 1) =>
                  last'.res = Err("NotAvailable")]_vars

\* ------------------------------------------------------ peek preconditions

\* C14: peek preconditions. In both directions peek with i >= available
\* returns InvalidIndex; TX peek(i, len) with i < available and
\* len > FRAME_SIZE returns InvalidLength; in neither case is a descriptor
\* field written.
C14_PeekPreconditions ==
    [][/\ (Called("tx", "peek") /\ last'.index >= tx.available) =>
            /\ last'.res = Err("InvalidIndex")
            /\ tx'.x_ring.desc = tx.x_ring.desc /\ last'.ev = << >>
       /\ (Called("rx", "peek") /\ last'.index >= rx.available) =>
            /\ last'.res = Err("InvalidIndex")
            /\ rx'.x_ring.desc = rx.x_ring.desc /\ last'.ev = << >>
       /\ (Called("tx", "peek") /\ last'.index < tx.available
             /\ last'.len > FRAME_SIZE) =>
            /\ last'.res = Err("InvalidLength")
            /\ tx'.x_ring.desc = tx.x_ring.desc /\ last'.ev = << >>]_vars

\* an RX peek at the index just past the owned window was refused
C14_Witness ==
    /\ last.dir = "rx" /\ last.op = "peek"
    /\ last.index = rx.available /\ last.index > 0
    /\ last.res = Err("InvalidIndex")

\* ------------------------------------------------------- TX peek lengths

\* no assert! has failed: a panic ends the program
Running == last.res.tag # "panic"

\* the lengths around the frame size
FrameLens == {0, 1, FRAME_SIZE - 1, FRAME_SIZE}

TxLenPeek(i, len) == Running /\ TxPeek(i, len)

TxLenCommit == Running /\ tx.producer < MaxSent /\ TxCommit(1)

TxLenConsume == Running /\ KernelTxConsume

\* a sender that peeks frames of the lengths around the frame size
NextTxLen ==
    \/ \E i \in {0, 1} : \E len \in FrameLens : TxLenPeek(i, len)
    \/ TxLenCommit
    \/ TxLenConsume

SpecTxLen == InitDir("Tx") /\ [][NextTxLen]_vars

\* C15: TX peek accepts every len from 0 to FRAME_SIZE inclusive: with
\* i < available it returns Ok with a slice of exactly len bytes and the
\* descriptor's len set to len; no assertion fails.
C15_TxPeekFullFrame ==
    [][(Called("tx", "peek") /\ last'.index < tx.available
          /\ last'.len <= FRAME_SIZE) =>
            LET x_head == BitAnd(wrapping_add(tx.producer, last'.index),
                                 tx.x_ring.mod_mask)
            IN /\ last'.res = Ok(last'.len)
               /\ slice'.len = last'.len
               /\ tx'.x_ring.desc[x_head].len = last'.len]_vars

\* ------------------------------------------------------ commit precondition

\* counts of a usize, below and from 2^32 on
WideCounts == {0, 1, FRAME_COUNT, FRAME_COUNT + 1, U32, U32 + 1}

\* callers that commit any count, with the kernel working the rings
NextWide ==
    \/ \E n \in WideCounts : TxCommit(n)
    \/ \E n \in WideCounts : RxCommit(n)
    \/ \E n \in {1, FRAME_COUNT} : TxSeek(n)
    \/ \E n \in {1, FRAME_COUNT} : RxSeek(n)
    \/ KernelTxConsume
    \/ KernelTxComplete
    \/ KernelRxTake
    \/ KernelRxDeliver(1)

SpecWide == (InitDir("Tx") \/ InitDir("Rx")) /\ [][NextWide]_vars

\* C16: commit precondition. In both directions, for every count n of a
\* usize, those from 2^32 on included, commit(n) with n > available returns
\* NotAvailable, and commit(n) with n <= available succeeds.
C16_CommitPrecondition ==
    [][/\ Called("tx", "commit") =>
            IF last'.n > tx.available
            THEN last'.res = Err("NotAvailable")
            ELSE last'.res = Ok(0)
       /\ Called("rx", "commit") =>
            IF last'.n > rx.available
            THEN last'.res = Err("NotAvailable")
            ELSE last'.res = Ok(0)]_vars

\* ------------------------------------------------------------------- kick

\* if_xdp.h: the ring flag the kernel sets when it wants a wake-up
XDP_RING_NEED_WAKEUP == 1

\* errno values
EAGAIN == 11
EBUSY == 16
ENOBUFS == 105
ENETDOWN == 100
\* errno values kick does not name (EINVAL, ENXIO)
OtherErrnos == {22, 6}

Errnos == {EAGAIN, EBUSY, ENOBUFS, ENETDOWN} \cup OtherErrnos

\* io::Error::from_raw_os_error(e)
IoError(e) == [tag |-> "Io", val |-> e]

\* log::warn!
LogWarn(e) == Event("log", "warn", 0, e, 0)

\* a kick that takes ENETDOWN for an error
kick_strict(s, T, ret, errno) ==
    IF ~s.inner THEN [s |-> s, res |-> Ok(0), ev |-> << >>]
    ELSE LET load == Event("x", "load_flags", 0, s.x_ring.flags, 0)
             need_wakeup == BitAnd(s.x_ring.flags, XDP_RING_NEED_WAKEUP) # 0
             sys == Syscall(IF T = "tx" THEN "sendto" ELSE "recvfrom", 0,
                            MSG_DONTWAIT + MSG_NOSIGNAL)
         IN IF ~need_wakeup THEN [s |-> s, res |-> Ok(0), ev |-> << load >>]
            ELSE IF ~(ret < 0) THEN [s |-> s, res |-> Ok(0), ev |-> << load, sys >>]
            ELSE IF errno \in {EBUSY, ENOBUFS, EAGAIN}
            THEN [s |-> s, res |-> Ok(0), ev |-> << load, sys >>]
            ELSE [s |-> s, res |-> IoError(errno), ev |-> << load, sys >>]

\* a kick that makes the syscall whatever the ring's flags
kick_always(s, T, ret, errno) ==
    IF ~s.inner THEN [s |-> s, res |-> Ok(0), ev |-> << >>]
    ELSE LET load == Event("x", "load_flags", 0, s.x_ring.flags, 0)
             sys == Syscall(IF T = "tx" THEN "sendto" ELSE "recvfrom", 0,
                            MSG_DONTWAIT + MSG_NOSIGNAL)
         IN IF ~(ret < 0) THEN [s |-> s, res |-> Ok(0), ev |-> << load, sys >>]
            ELSE IF errno \in {EBUSY, ENOBUFS, EAGAIN}
            THEN [s |-> s, res |-> Ok(0), ev |-> << load, sys >>]
            ELSE IF errno = ENETDOWN
            THEN [s |-> s, res |-> Ok(0), ev |-> << load, sys, LogWarn(errno) >>]
            ELSE [s |-> s, res |-> IoError(errno), ev |-> << load, sys >>]

\* Socket::kick on a handle of direction T; ret and errno are what the
\* syscall returns, if it is made
kick(s, T, ret, errno) ==
    IF ~s.inner THEN [s |-> s, res |-> Ok(0), ev |-> << >>]
    ELSE LET load == Event("x", "load_flags", 0, s.x_ring.flags, 0)
             need_wakeup == BitAnd(s.x_ring.flags, XDP_RING_NEED_WAKEUP) # 0
             sys == Syscall(IF T = "tx" THEN "sendto" ELSE "recvfrom", 0,
                            MSG_DONTWAIT + MSG_NOSIGNAL)
         IN IF ~need_wakeup THEN [s |-> s, res |-> Ok(0), ev |-> << load >>]
            ELSE IF ~(ret < 0) THEN [s |-> s, res |-> Ok(0), ev |-> << load, sys >>]
            ELSE IF errno \in {EBUSY, ENOBUFS, EAGAIN}
            THEN [s |-> s, res |-> Ok(0), ev |-> << load, sys >>]
            ELSE IF errno = ENETDOWN
            THEN [s |-> s, res |-> Ok(0), ev |-> << load, sys, LogWarn(errno) >>]
            ELSE [s |-> s, res |-> IoError(errno), ev |-> << load, sys >>]

\* what a syscall returns: << ret, errno >>
KickReturns == {<< 0, 0 >>} \cup {<< -1, e >> : e \in Errnos}

\* the syscalls among the events of a call
Syscalls(ev) == SelectSeq(ev, LAMBDA e : e.ring = "fd")

\* the handle of a direction
Sock(dir) == IF dir = "tx" THEN tx ELSE rx

\* a call of kick; the record's data are the returns of the syscalls made
Kick(dir, o) ==
    /\ Sock(dir).inner
    /\ LET r == kick(Sock(dir), dir, o[1], o[2])
       IN /\ Syscalls(r.ev) = << >> => o = << 0, 0 >>
          /\ tx' = IF dir = "tx" THEN r.s ELSE tx
          /\ rx' = IF dir = "rx" THEN r.s ELSE rx
          /\ last' = Log(dir, "kick", 0, 0, 0,
                         IF Syscalls(r.ev) = << >> THEN << >> ELSE << o >>,
                         r.res, r.ev)
    /\ UNCHANGED << umem, kernel, slice >>

\* the kernel sets or clears NEED_WAKEUP on the handle's primary ring
KernelNeedWakeup(dir, f) ==
    /\ Sock(dir).inner
    /\ Sock(dir).x_ring.flags # f
    /\ tx' = IF dir = "tx" THEN [tx EXCEPT !.x_ring.flags = f] ELSE tx
    /\ rx' = IF dir = "rx" THEN [rx EXCEPT !.x_ring.flags = f] ELSE rx
    /\ last' = KernelLog("need_wakeup")
    /\ UNCHANGED << umem, kernel, slice >>

\* -------------------------------------------------------------- poll_wait

\* libc: poll events
POLLIN == 1
POLLOUT == 4
POLLERR == 8

\* libc::poll(fds, 1, -1) with fds[0].events = mask
PollCall(mask) == Syscall("poll", 1, mask)

\* the call has not returned: it is inside poll
Blocked == [tag |-> "Blocked", val |-> 0]

\* the poll loop leaves at the first poll that does not fail
poll_loop_any(s, mask, results, i, ev) ==
    LET first == {j \in i .. Len(results) : ~(0 > results[j][1])}
    IN IF first = {}
       THEN [s |-> s, res |-> Blocked, used |-> Len(results),
             ev |-> ev \o [j \in 1 .. Len(results) - i + 2 |-> PollCall(mask)]]
       ELSE LET k == CHOOSE j \in first : \A l \in first : j <= l
            IN [s |-> s, res |-> Ok(0), used |-> k,
                ev |-> ev \o [j \in 1 .. k - i + 1 |-> PollCall(mask)]]

\* the loop of poll_wait from its i-th poll on; results[i] = << ret, revents >>
\* is what the i-th poll returns
RECURSIVE poll_loop(_, _, _, _, _)
poll_loop(s, mask, results, i, ev) ==
    LET ev1 == ev \o << PollCall(mask) >>
    IN IF i > Len(results)
       THEN [s |-> s, res |-> Blocked, ev |-> ev1, used |-> i - 1]
       ELSE IF 0 > results[i][1]
       THEN poll_loop(s, mask, results, i + 1, ev1)
       ELSE IF BitAnd(results[i][2], mask) # 0
       THEN [s |-> s, res |-> Ok(0), ev |-> ev1, used |-> i]
       ELSE poll_loop(s, mask, results, i + 1, ev1)

PollMask(T) == IF T = "tx" THEN POLLOUT ELSE POLLIN

\* Socket::poll_wait / PollWaitExt::poll_wait: kr is what the wake-up syscall
\* returns, results what the polls return
poll_wait(s, T, kr, results) ==
    LET k == kick(s, T, kr[1], kr[2])
    IN IF k.res.tag # "Ok"
       THEN [s |-> k.s, res |-> k.res, ev |-> k.ev, used |-> 0]
       ELSE IF ~s.inner
       THEN [s |-> k.s, res |-> Ok(0), ev |-> k.ev, used |-> 0]
       ELSE poll_loop(k.s, PollMask(T), results, 1, k.ev)

\* what a poll returns: << ret, revents >>
PollReturns == {<< -1, 0 >>, << 1, POLLIN >>, << 1, POLLOUT >>, << 1, POLLERR >>}

PollSeqs == UNION {[1 .. n -> PollReturns] : n \in 0 .. MaxPolls}

\* a call of poll_wait, up to its return or to the poll it stays in; the
\* record's data are the returns of the syscalls made
PollWait(dir, kr, results) ==
    /\ Sock(dir).inner
    /\ LET r == poll_wait(Sock(dir), dir, kr, results)
           k == kick(Sock(dir), dir, kr[1], kr[2])
       IN /\ r.used = Len(results)
          /\ Syscalls(k.ev) = << >> => kr = << 0, 0 >>
          /\ tx' = IF dir = "tx" THEN r.s ELSE tx
          /\ rx' = IF dir = "rx" THEN r.s ELSE rx
          /\ last' = Log(dir, "poll_wait", Len(results), 0, 0,
                         (IF Syscalls(k.ev) = << >> THEN << >> ELSE << kr >>)
                            \o results,
                         r.res, r.ev)
    /\ UNCHANGED << umem, kernel, slice >>

\* callers that kick and wait, with the kernel setting the flag
NextKick ==
    \/ \E dir \in {"tx", "rx"} : \E o \in KickReturns : Kick(dir, o)
    \/ \E dir \in {"tx", "rx"} : \E f \in {0, XDP_RING_NEED_WAKEUP} :
          KernelNeedWakeup(dir, f)
    \/ \E dir \in {"tx", "rx"} : \E kr \in KickReturns : \E results \in PollSeqs :
          PollWait(dir, kr, results)

SpecKick == (InitDir("Tx") \/ InitDir("Rx")) /\ [][NextKick]_vars

\* the wake-up syscall of a handle of direction dir
WakeupCall(dir) ==
    Syscall(IF dir = "tx" THEN "sendto" ELSE "recvfrom", 0, MSG_DONTWAIT + MSG_NOSIGNAL)

NeedWakeup(dir) == BitAnd(Sock(dir).x_ring.flags, XDP_RING_NEED_WAKEUP) # 0

\* C17: kick elision. A kick issues no syscall when the NEED_WAKEUP flag of
\* the handle's primary ring is clear, and exactly one when it is set: a
\* non-blocking sendto (TX) or recvfrom (RX) of length zero; never more.
C17_KickElision ==
    [][\A dir \in {"tx", "rx"} :
         Called(dir, "kick") =>
            LET sys == Syscalls(last'.ev)
            IN IF ~NeedWakeup(dir)
               THEN sys = << >>
               ELSE /\ Len(sys) = 1
                    /\ sys[1].kind = (IF dir = "tx" THEN "sendto" ELSE "recvfrom")
                    /\ sys[1].len = 0
                    /\ BitAnd(sys[1].val, MSG_DONTWAIT) # 0]_vars

\* a kick of an RX handle found the flag set and made one recvfrom
C17_Witness ==
    /\ last.dir = "rx" /\ last.op = "kick"
    /\ rx.x_ring.flags = XDP_RING_NEED_WAKEUP
    /\ Syscalls(last.ev) = << WakeupCall("rx") >>

\* C18: kick error classification. When the wake-up syscall fails, kick
\* returns Ok for EAGAIN, EBUSY and ENOBUFS, Ok after logging for ENETDOWN,
\* and an Io error carrying the errno for any other; the handle's cached
\* indices and the rings are unchanged in every case.
C18_KickErrors ==
    [][\A dir \in {"tx", "rx"} :
         (Called(dir, "kick") /\ last'.data # << >> /\ last'.data[1][1] < 0) =>
            LET errno == last'.data[1][2]
                logged == \E j \in 1 .. Len(last'.ev) : last'.ev[j] = LogWarn(errno)
            IN /\ errno \in {EAGAIN, EBUSY, ENOBUFS} =>
                     last'.res = Ok(0) /\ ~logged
               /\ errno = ENETDOWN => last'.res = Ok(0) /\ logged
               /\ errno \notin {EAGAIN, EBUSY, ENOBUFS, ENETDOWN} =>
                     last'.res = IoError(errno)
               /\ tx' = tx /\ rx' = rx]_vars

\* the wake-up of a TX handle failed with the interface down
C18_Witness ==
    /\ last.dir = "tx" /\ last.op = "kick"
    /\ last.data = << << -1, ENETDOWN >> >>
    /\ last.res = Ok(0)

\* the poll result r has the readiness bit of the direction
Ready(dir, r) == ~(r[1] < 0) /\ BitAnd(r[2], PollMask(dir)) # 0

\* C20: poll_wait protocol. poll_wait kicks before it waits, and returns the
\* kick's error without waiting when the kick fails. It returns Ok only after
\* a poll result with the requested readiness bit (POLLOUT for TX, POLLIN for
\* RX); after a wake-up without the bit, or a failed poll, it polls again.
C20_PollWait ==
    [][\A dir \in {"tx", "rx"} :
         Called(dir, "poll_wait") =>
            LET ev == last'.ev
                polls == SelectSeq(ev, LAMBDA e : e.kind = "poll")
                wake == SelectSeq(Syscalls(ev), LAMBDA e : e.kind # "poll")
                results == SubSeq(last'.data, Len(wake) + 1, Len(last'.data))
                failed == /\ wake # << >> /\ last'.data[1][1] < 0
                          /\ last'.data[1][2] \notin {EAGAIN, EBUSY, ENOBUFS, ENETDOWN}
            IN /\ ev[1] = Event("x", "load_flags", 0, Sock(dir).x_ring.flags, 0)
               /\ wake = IF NeedWakeup(dir) THEN << WakeupCall(dir) >> ELSE << >>
               /\ SubSeq(ev, Len(ev) - Len(polls) + 1, Len(ev)) = polls
               /\ \A j \in 1 .. Len(polls) : polls[j] = PollCall(PollMask(dir))
               /\ IF failed
                  THEN last'.res = IoError(last'.data[1][2]) /\ polls = << >>
                  ELSE /\ last'.res \in {Ok(0), Blocked}
                       /\ \A j \in 1 .. Len(results) - 1 : ~Ready(dir, results[j])
                       /\ last'.res = Ok(0) =>
                             /\ results # << >>
                             /\ Ready(dir, results[Len(results)])
                             /\ Len(polls) = Len(results)
                       /\ last'.res = Blocked =>
                             /\ \A j \in 1 .. Len(results) : ~Ready(dir, results[j])
                             /\ Len(polls) = Len(results) + 1
               /\ tx' = tx /\ rx' = rx]_vars

\* a poll_wait on a TX handle whose wake-up got EAGAIN returned after a
\* wake-up that was readable only and one that was writable
C20_Witness ==
    /\ last.dir = "tx" /\ last.op = "poll_wait"
    /\ last.data = << << -1, EAGAIN >>, << 1, POLLIN >>, << 1, POLLOUT >> >>
    /\ last.res = Ok(0)
    /\ Len(SelectSeq(last.ev, LAMBDA e : e.kind = "poll")) = 2

\* ------------------------------------------------------------- data path

\* C19: No syscalls on the data path. seek, peek and commit, in both
\* directions and whatever they return, issue no syscall; a TX seek that
\* returns RingFull does not kick the kernel.
C19_NoSyscallOnDataPath ==
    [][\A dir \in {"tx", "rx"} : \A op \in {"seek", "peek", "commit"} :
         Called(dir, op) => Syscalls(last'.ev) = << >>]_vars

\* a TX seek returned RingFull having only loaded the Completion producer
C19_Witness ==
    /\ last.dir = "tx" /\ last.op = "seek"
    /\ last.res = Err("RingFull")
    /\ last.ev = << Event("u", "load_producer", 0, tx.u_ring.producer, 0) >>

\* ------------------------------------------------------ poll_wait timeout

\* the timeout poll_wait hands to libc::poll, whatever its _timeout argument
POLL_TIMEOUT == -1

\* Option<Duration> in ms; -1 stands for None
Timeouts == {-1, 0, 1000}

\* poll_wait(timeout) is called and runs up to its first poll, or returns the
\* kick's error; the record's index is the timeout
PollEnter(dir, timeout, kr) ==
    /\ Sock(dir).inner
    /\ last.res # Blocked
    /\ LET r == poll_wait(Sock(dir), dir, kr, << >>)
           k == kick(Sock(dir), dir, kr[1], kr[2])
       IN /\ Syscalls(k.ev) = << >> => kr = << 0, 0 >>
          /\ tx' = IF dir = "tx" THEN r.s ELSE tx
          /\ rx' = IF dir = "rx" THEN r.s ELSE rx
          /\ last' = Log(dir, "poll_wait", 0, timeout, 0,
                         IF Syscalls(k.ev) = << >> THEN << >> ELSE << kr >>,
                         r.res, r.ev)
    /\ UNCHANGED << umem, kernel, slice >>

\* the poll a poll_wait is in returns: on a wake-up of the socket or a signal,
\* or with 0 when its timeout, if it has one, has passed; the loop goes on
PollReturn(dir, result) ==
    /\ last.dir = dir /\ last.op = "poll_wait" /\ last.res = Blocked
    /\ last.n < MaxPolls
    /\ result = << 0, 0 >> => POLL_TIMEOUT >= 0
    /\ LET r == poll_loop(Sock(dir), PollMask(dir), << result >>, 1,
                          SubSeq(last.ev, 1, Len(last.ev) - 1))
       IN last' = Log(dir, "poll_wait", last.n + 1, last.index, 0,
                      last.data \o << result >>, r.res, r.ev)
    /\ UNCHANGED << tx, rx, umem, kernel, slice >>

\* the kernel changes the flag while no poll_wait is under way
KernelPollFlag(dir, f) == last.res # Blocked /\ KernelNeedWakeup(dir, f)

\* callers that wait with and without a timeout
NextPoll ==
    \/ \E dir \in {"tx", "rx"} : \E timeout \in Timeouts : \E kr \in KickReturns :
          PollEnter(dir, timeout, kr)
    \/ \E dir \in {"tx", "rx"} : \E result \in PollReturns \cup {<< 0, 0 >>} :
          PollReturn(dir, result)
    \/ \E dir \in {"tx", "rx"} : \E f \in {0, XDP_RING_NEED_WAKEUP} :
          KernelPollFlag(dir, f)

\* time passes: a poll with a timeout returns 0 when nothing wakes it up.
\* Wake-ups are the kernel's and are not owed.
SpecPoll ==
    /\ InitDir("Tx") \/ InitDir("Rx")
    /\ [][NextPoll]_vars
    /\ WF_vars(\E dir \in {"tx", "rx"} : PollReturn(dir, << 0, 0 >>))

\* C21: poll_wait honors its timeout. Called with Some(timeout), it returns
\* even when the requested readiness never comes; only with None may it wait
\* for ever.
C21_PollWaitTimeout ==
    (last.op = "poll_wait" /\ last.index >= 0 /\ last.res = Blocked)
       ~> ~(last.op = "poll_wait" /\ last.res = Blocked)

\* ------------------------------------------------------------------- send

\* Socket<_TX>::peek
Tx_peek(s, len) == Tx_peek_(s, 0, len)

\* Socket<_TX>::commit: commits one descriptor
Tx_commit(s) == Tx_commit_(s, 1)

\* a send that copies the data in front of the header
send_data_first(s, mem, data, header) ==
    LET buf_len == Len(data) + Len(header)
        p == Tx_peek(s, buf_len)
    IN IF p.res.tag # "Ok"
       THEN [s |-> p.s, mem |-> mem, res |-> p.res, ev |-> p.ev]
       ELSE LET buf == data \o header
                c == Tx_commit(p.s)
            IN [s |-> c.s,
                mem |-> [a \in Tracked |->
                            IF a >= p.slice.addr /\ a < p.slice.addr + buf_len
                            THEN buf[a - p.slice.addr + 1] ELSE mem[a]],
                res |-> c.res, ev |-> p.ev \o c.ev]

\* SendExt::send on handle s over the UMEM mem; header is << >> for None
send(s, mem, data, header) ==
    LET hdr_len == Len(header)
        buf_len == Len(data) + hdr_len
        p == Tx_peek(s, buf_len)
    IN IF p.res.tag # "Ok"
       THEN [s |-> p.s, mem |-> mem, res |-> p.res, ev |-> p.ev]
       ELSE LET buf == header \o data
                c == Tx_commit(p.s)
            IN [s |-> c.s,
                mem |-> [a \in Tracked |->
                            IF a >= p.slice.addr /\ a < p.slice.addr + buf_len
                            THEN buf[a - p.slice.addr + 1] ELSE mem[a]],
                res |-> c.res, ev |-> p.ev \o c.ev]

\* the packets sent: one byte, and one byte more than a frame holds
SendData == {<< 171 >>, [k \in 1 .. FRAME_SIZE + 1 |-> 171]}
\* the headers: None and one byte
SendHeaders == {<< >>, << 222 >>}

\* a call of send; the record's n is the header's length, its data the packet
Send(data, header) ==
    /\ tx.inner
    /\ LET r == send(tx, umem, data, header)
       IN /\ r.res.tag = "Ok" => tx.producer + 1 <= MaxIndex
          /\ tx' = r.s
          /\ umem' = r.mem
          /\ last' = Log("tx", "send", Len(header), 0, Len(header) + Len(data),
                         header \o data, r.res, r.ev)
    /\ slice' = Borrowed(NoSlice, 0)
    /\ UNCHANGED << rx, kernel >>

\* a sender that sends packets and seeks, with the kernel transmitting
NextSend ==
    \/ \E data \in SendData : \E header \in SendHeaders : Send(data, header)
    \/ TxSeek(1)
    \/ KernelTxConsume
    \/ KernelTxComplete

SpecSend == InitDir("Tx") /\ [][NextSend]_vars

\* C22: send performs its own seek. With available = 0 and at least one
\* completed frame in the Completion ring, send reclaims a frame and succeeds;
\* with available = 0 and the Completion ring empty it fails with RingFull.
C22_SendSeeks ==
    [][(Called("tx", "send") /\ tx.available = 0
          /\ last'.len <= MaxPayload) =>
            IF TxReclaimable(tx) = 0
            THEN last'.res = Err("RingFull")
            ELSE last'.res = Ok(0) /\ tx'.consumer # tx.consumer]_vars

\* C23: send result. A successful send(data, header) on a handle with at
\* least one available frame leaves the descriptor at slot (old producer &
\* mask) with len = |header| + |data| and the UMEM bytes at its addr equal to
\* header followed by data, advances the TX producer word by exactly 1 and
\* decreases available by exactly 1; with |header| + |data| > FRAME_SIZE it
\* returns InvalidLength and publishes nothing.
C23_SendResult ==
    [][(Called("tx", "send") /\ tx.available >= 1) =>
          IF last'.len > FRAME_SIZE
          THEN last'.res = Err("InvalidLength") /\ tx' = tx /\ umem' = umem
          ELSE last'.res = Ok(0) =>
                  LET d == tx'.x_ring.desc[BitAnd(tx.producer, tx.x_ring.mod_mask)]
                  IN /\ d.len = last'.len
                     /\ UmemRead(umem', d.addr, d.len) = last'.data
                     /\ tx'.x_ring.producer = wrapping_add(tx.x_ring.producer, 1)
                     /\ tx'.available = tx.available - 1]_vars

\* a packet with a header was sent from the second slot of the ring
C23_Witness ==
    /\ last.dir = "tx" /\ last.op = "send" /\ last.res = Ok(0)
    /\ last.n = 1 /\ last.data = << 222, 171 >>
    /\ tx.x_ring.producer = 2
    /\ tx.x_ring.desc[1].len = 2
    /\ UmemRead(umem, tx.x_ring.desc[1].addr, 2) = << 222, 171 >>

\* ------------------------------------------------- construction and drop

\* log::error!
LogError == Event("log", "error", 0, 0, 0)

\* an OS resource is acquired: the socket opened, a region mapped
Acquire(r) == Event(r, IF r = "fd" THEN "socket" ELSE "mmap", 0, 0, 0)

\* OwnedFd::drop closes; OwnedMmap::drop unmaps and logs a failed munmap
Release(r, fails) ==
    IF r = "fd" THEN << Event(r, "close", 0, 0, 0) >>
    ELSE IF fails THEN << Event(r, "munmap", 0, 0, 0), LogError >>
    ELSE << Event(r, "munmap", 0, 0, 0) >>

\* the steps of create_socket that can fail, in order, each with the
\* resource it acquires ("" for none)
CreateSteps(direction) ==
    << [step |-> "socket", res |-> "fd"],
       [step |-> "umem_mmap", res |-> "umem"],
       [step |-> "umem_reg", res |-> ""],
       [step |-> "set_size_fill", res |-> ""],
       [step |-> "set_size_completion", res |-> ""] >>
    \o (IF tx_ring_size(direction) > 0
        THEN << [step |-> "set_size_tx", res |-> ""] >> ELSE << >>)
    \o (IF rx_ring_size(direction) > 0
        THEN << [step |-> "set_size_rx", res |-> ""] >> ELSE << >>)
    \o << [step |-> "ring_offsets", res |-> ""] >>
    \o (IF direction = "Rx" THEN << >>
        ELSE << [step |-> "mmap_completion", res |-> "ring_completion"],
                [step |-> "mmap_tx", res |-> "ring_tx"] >>)
    \o (IF direction = "Tx" THEN << >>
        ELSE << [step |-> "mmap_rx", res |-> "ring_rx"],
                [step |-> "mmap_fill", res |-> "ring_fill"] >>)
    \o << [step |-> "bind", res |-> ""] >>

\* an unwinding that leaves the ring mappings to the OS
RECURSIVE Unwind_leak(_)
Unwind_leak(held) ==
    IF held = << >> THEN << >>
    ELSE (IF held[Len(held)] \in {"fd", "umem"}
          THEN Release(held[Len(held)], FALSE) ELSE << >>)
         \o Unwind_leak(SubSeq(held, 1, Len(held) - 1))

\* the values a failing step drops that hold a resource, in drop order: the
\* locals in reverse order of declaration
RECURSIVE Unwind(_)
Unwind(held) ==
    IF held = << >> THEN << >>
    ELSE Release(held[Len(held)], FALSE) \o Unwind(SubSeq(held, 1, Len(held) - 1))

\* what create_socket returns when it fails
CreateError == [tag |-> "Io", val |-> 0]

\* the resources an event sequence leaves acquired
OpenAfter(ev) ==
    {e.ring : e \in {ev[j] : j \in {i \in 1 .. Len(ev) : ev[i].kind \in {"socket", "mmap"}}}}
    \ {e.ring : e \in {ev[j] : j \in {i \in 1 .. Len(ev) : ev[i].kind \in {"close", "munmap"}}}}

\* the steps with the seeding after the mmap of the Fill ring left to the
\* end of the run
RECURSIVE WithSeeds_late(_)
WithSeeds_late(steps) ==
    IF steps = << >> THEN << >>
    ELSE WithSeeds_late(SubSeq(steps, 1, Len(steps) - 1))
         \o (IF steps[Len(steps)] = "mmap_tx" THEN << "mmap_tx", "seed_tx" >>
             ELSE IF steps[Len(steps)] = "bind"
                     /\ \E i \in 1 .. Len(steps) : steps[i] = "mmap_fill"
             THEN << "bind", "seed_fill", "publish_fill" >>
             ELSE << steps[Len(steps)] >>)

\* the steps of a run with what create_socket does to a ring right after
\* its mmap: tx_ring.fill(0); f_ring.fill(tx_ring_size) and
\* f_ring.update_producer(f_ring.len)
RECURSIVE WithSeeds(_)
WithSeeds(steps) ==
    IF steps = << >> THEN << >>
    ELSE WithSeeds(SubSeq(steps, 1, Len(steps) - 1))
         \o (IF steps[Len(steps)] = "mmap_tx" THEN << "mmap_tx", "seed_tx" >>
             ELSE IF steps[Len(steps)] = "mmap_fill"
             THEN << "mmap_fill", "seed_fill", "publish_fill" >>
             ELSE << steps[Len(steps)] >>)

\* the ring steps of TxSocket::new and RxSocket::new as create_socket calls
\* them, with the rings already seeded: none
SocketNewSteps == << >>

\* the steps create_socket(direction) takes, in order, when its step number
\* fail fails (0: none does); a failing step is the last one
create_trace(direction, fail) ==
    LET steps == CreateSteps(direction)
        done == IF fail = 0 THEN steps ELSE SubSeq(steps, 1, fail)
        tr == WithSeeds([j \in 1 .. Len(done) |-> done[j].step])
    IN IF fail = 0 THEN tr \o SocketNewSteps
       ELSE IF tr[Len(tr)] = done[fail].step THEN tr
       ELSE SubSeq(tr, 1, CHOOSE k \in 1 .. Len(tr) : tr[k] = done[fail].step)

\* create_socket(direction) whose step number fail fails (0: none does)
create_run(direction, fail) ==
    LET steps == CreateSteps(direction)
        done == IF fail = 0 THEN steps ELSE SubSeq(steps, 1, fail - 1)
        holding == SelectSeq(done, LAMBDA st : st.res # "")
        held == [j \in 1 .. Len(holding) |-> holding[j].res]
        got == [j \in 1 .. Len(held) |-> Acquire(held[j])]
    IN IF fail = 0
       THEN [res |-> Ok(0), tx |-> create_socket(direction).tx.sock,
             rx |-> create_socket(direction).rx.sock, ev |-> got]
       ELSE [res |-> CreateError, tx |-> SocketDefault, rx |-> SocketDefault,
             ev |-> got \o Unwind(held)]

\* RingType::set_size: the count handed to setsockopt
set_size(T, ring_size) ==
    IF ring_size = 0 /\ T \in {"Fill", "Completion"} THEN 1 ELSE ring_size

\* no ring is registered
NoSizes == [fill |-> 0, completion |-> 0, tx |-> 0, rx |-> 0]

\* the counts create_socket registers the four rings with
RegisteredSizes(direction) ==
    [fill |-> set_size("Fill", tx_ring_size(direction)),
     completion |-> set_size("Completion", tx_ring_size(direction)),
     tx |-> IF tx_ring_size(direction) > 0
            THEN set_size("Tx", tx_ring_size(direction)) ELSE 0,
     rx |-> IF rx_ring_size(direction) > 0
            THEN set_size("Rx", rx_ring_size(direction)) ELSE 0]

\* nothing is constructed
InitNone ==
    /\ tx = SocketDefault
    /\ rx = SocketDefault
    /\ umem = [a \in Tracked |-> 0]
    /\ kernel = [tx |-> EmptyBag, rx |-> EmptyBag, open |-> {}, sizes |-> NoSizes]
    /\ slice = Borrowed(NoSlice, 0)
    /\ last = [dir |-> "-", op |-> "-", n |-> 0, index |-> 0, len |-> 0,
               data |-> << >>, res |-> Ok(0), ev |-> << >>, prev |-> NoPrev]

\* a call of create_socket; the record's n is the step that failed, its
\* data the steps taken
Create(direction, fail) ==
    /\ tx = SocketDefault /\ rx = SocketDefault /\ kernel.open = {}
    /\ fail \in 0 .. Len(CreateSteps(direction))
    /\ LET r == create_run(direction, fail)
       IN /\ tx' = r.tx
          /\ rx' = r.rx
          /\ kernel' = [kernel EXCEPT
                          !.open = OpenAfter(r.ev),
                          !.sizes = IF fail = 0 THEN RegisteredSizes(direction)
                                    ELSE NoSizes]
          /\ last' = Log(direction, "create_socket", fail, 0, 0,
                         create_trace(direction, fail), r.res, r.ev)
    /\ UNCHANGED << umem, slice >>

\* the mappings of a handle's rings
RingName(dir, which) ==
    CASE dir = "tx" /\ which = "x" -> "ring_tx"
      [] dir = "tx" /\ which = "u" -> "ring_completion"
      [] dir = "rx" /\ which = "x" -> "ring_rx"
      [] OTHER -> "ring_fill"

\* the other handle of the pair
Other(dir) == IF dir = "tx" THEN rx ELSE tx

\* a drop of the Arc that drops the Inner whatever other references there are
drop_inner_always(others, failing) ==
    Release("umem", "umem" \in failing) \o Release("fd", FALSE)

\* Arc<Inner>::drop: the last reference drops the Inner, its umem and then
\* its fd; others tells that another handle holds a reference
drop_inner(others, failing) ==
    IF others THEN << >>
    ELSE Release("umem", "umem" \in failing) \o Release("fd", FALSE)

\* a handle is dropped: first its field inner
DropInner(dir, failing) ==
    /\ Sock(dir).inner
    /\ Other(dir).inner => failing = {}
    /\ LET ev == drop_inner(Other(dir).inner, failing)
       IN /\ kernel' = [kernel EXCEPT !.open =
                           @ \ {e.ring : e \in {ev[j] : j \in
                                   {i \in 1 .. Len(ev) :
                                      /\ ev[i].kind \in {"close", "munmap"}
                                      /\ ev[i].ring \notin failing}}},
                          !.sizes = IF ev = << >> THEN @ ELSE NoSizes]
          /\ last' = Log(dir, "drop_inner", 0, 0, 0, << >>, Ok(0), ev)
    /\ tx' = IF dir = "tx" THEN [tx EXCEPT !.inner = FALSE] ELSE tx
    /\ rx' = IF dir = "rx" THEN [rx EXCEPT !.inner = FALSE] ELSE rx
    /\ UNCHANGED << umem, slice >>

\* then its field x_ring and then u_ring; with the last the handle is gone
DropRing(dir, which, fails) ==
    /\ ~Sock(dir).inner
    /\ IF which = "x" THEN Sock(dir).x_ring.mapped
       ELSE ~Sock(dir).x_ring.mapped /\ Sock(dir).u_ring.mapped
    /\ LET after == IF which = "x" THEN [Sock(dir) EXCEPT !.x_ring = RingDefault]
                    ELSE SocketDefault
       IN /\ tx' = IF dir = "tx" THEN after ELSE tx
          /\ rx' = IF dir = "rx" THEN after ELSE rx
    /\ kernel' = [kernel EXCEPT !.open =
                     IF fails THEN @ ELSE @ \ {RingName(dir, which)}]
    /\ last' = Log(dir, "drop_ring", 0, 0, 0, << >>, Ok(0),
                   Release(RingName(dir, which), fails))
    /\ UNCHANGED << umem, slice >>

\* sockets are created, with any step failing, and their handles dropped
NextLife ==
    \/ \E direction \in {"Tx", "Rx", "Both"} : \E fail \in 0 .. 13 :
          Create(direction, fail)
    \/ \E dir \in {"tx", "rx"} : \E failing \in SUBSET {"umem"} :
          DropInner(dir, failing)
    \/ \E dir \in {"tx", "rx"} : \E which \in {"x", "u"} : \E fails \in BOOLEAN :
          DropRing(dir, which, fails)

SpecLife == InitNone /\ [][NextLife]_vars

TxSeeds(s) == {s.x_ring.desc[i].addr : i \in 0 .. s.x_ring.len - 1}
FillSeeds(s) == {s.u_ring.desc[i] : i \in 0 .. s.u_ring.len - 1}

\* C25: Frame-pool partition at construction. TX slot i is seeded with
\* i * FRAME_SIZE, i < x_len, and Fill slot i with (i + offset) * FRAME_SIZE,
\* i < f_len, offset being the frames of the TX side (FRAME_COUNT / 2 under
\* Both, 0 under Rx). Every seeded address appears once, the TX and RX sets
\* are disjoint and lie inside the UMEM; the rings have FRAME_COUNT slots for
\* Tx or Rx and FRAME_COUNT / 2 each for Both; the Fill producer is f_len.
C25_FramePartition ==
    [][\A direction \in {"Tx", "Rx", "Both"} :
         (Called(direction, "create_socket") /\ last'.n = 0) =>
            LET offset == IF direction = "Both" THEN FRAME_COUNT \div 2 ELSE 0
                len == IF direction = "Both" THEN FRAME_COUNT \div 2 ELSE FRAME_COUNT
            IN /\ tx'.inner =>
                    /\ tx'.x_ring.len = len
                    /\ \A i \in 0 .. len - 1 : tx'.x_ring.desc[i].addr = i * FRAME_SIZE
                    /\ Cardinality(TxSeeds(tx')) = len
               /\ rx'.inner =>
                    /\ rx'.u_ring.len = len /\ rx'.x_ring.len = len
                    /\ \A i \in 0 .. len - 1 :
                          rx'.u_ring.desc[i] = (i + offset) * FRAME_SIZE
                    /\ Cardinality(FillSeeds(rx')) = len
                    /\ rx'.u_ring.producer = len
               /\ (tx'.inner /\ rx'.inner) => TxSeeds(tx') \cap FillSeeds(rx') = {}
               /\ \A a \in (IF tx'.inner THEN TxSeeds(tx') ELSE {})
                           \cup (IF rx'.inner THEN FillSeeds(rx') ELSE {}) :
                     a + FRAME_SIZE <= FRAME_COUNT * FRAME_SIZE]_vars

\* a socket of both directions: the Fill ring starts at the frame after the
\* TX half
C25_Witness ==
    /\ last.dir = "Both" /\ last.op = "create_socket" /\ last.n = 0
    /\ tx.inner /\ rx.inner
    /\ rx.u_ring.desc[0] = (FRAME_COUNT \div 2) * FRAME_SIZE
    /\ tx.x_ring.desc[tx.x_ring.len - 1].addr = (FRAME_COUNT \div 2 - 1) * FRAME_SIZE

\* ----------------------------------------------------------- configuration

\* if_xdp.h: bind flags
XDP_COPY == 2
XDP_ZEROCOPY == 4
XDP_USE_NEED_WAKEUP == 8

BitOr(x, y) == x + y - BitAnd(x, y)

\* Option<T>: None is << >>, Some(v) is << v >>
OptionBool == {<< >>, << TRUE >>, << FALSE >>}

\* Option<XdpConfig>
Configs ==
    {<< >>} \cup
    {<< [zero_copy |-> z, huge_page |-> h, need_wakeup |-> w] >> :
        z \in OptionBool, h \in {<< >>}, w \in OptionBool}

\* config.and_then(|cfg| cfg.zero_copy) and the like
zero_copy_of(config) == IF config = << >> THEN << >> ELSE config[1].zero_copy
need_wakeup_of(config) == IF config = << >> THEN << >> ELSE config[1].need_wakeup

\* a sockaddr_xdp whose need_wakeup flag is off unless asked for
sockaddr_xdp_off(if_index, if_queue, config) ==
    LET zero_copy == IF zero_copy_of(config) = << TRUE >> THEN XDP_ZEROCOPY
                     ELSE IF zero_copy_of(config) = << FALSE >> THEN XDP_COPY
                     ELSE 0
        need_wakeup == IF need_wakeup_of(config) = << TRUE >>
                       THEN XDP_USE_NEED_WAKEUP ELSE 0
    IN [sxdp_flags |-> BitOr(need_wakeup, zero_copy), sxdp_ifindex |-> if_index,
        sxdp_queue_id |-> if_queue, sxdp_shared_umem_fd |-> 0]

\* create_socket: the sockaddr_xdp it binds
sockaddr_xdp(if_index, if_queue, config) ==
    LET zero_copy == IF zero_copy_of(config) = << TRUE >> THEN XDP_ZEROCOPY
                     ELSE IF zero_copy_of(config) = << FALSE >> THEN XDP_COPY
                     ELSE 0
        need_wakeup == IF (IF need_wakeup_of(config) = << >> THEN TRUE
                           ELSE need_wakeup_of(config)[1])
                       THEN XDP_USE_NEED_WAKEUP ELSE 0
    IN [sxdp_flags |-> BitOr(need_wakeup, zero_copy), sxdp_ifindex |-> if_index,
        sxdp_queue_id |-> if_queue, sxdp_shared_umem_fd |-> 0]

\* interface indexes and queue ids
IfIndexes == {0, 1, 2, 7}
IfQueues == {0, 1, 3}

\* create_socket binds; the record's data are the arguments and the address
Bind(if_index, if_queue, config) ==
    /\ last' = Log("-", "bind", 0, 0, 0,
                   << [if_index |-> if_index, if_queue |-> if_queue, config |-> config],
                      sockaddr_xdp(if_index, if_queue, config) >>,
                   Ok(0), << >>)
    /\ UNCHANGED << tx, rx, umem, kernel, slice >>

NextBind ==
    \E if_index \in IfIndexes : \E if_queue \in IfQueues : \E config \in Configs :
       Bind(if_index, if_queue, config)

SpecBind == InitNone /\ [][NextBind]_vars

\* C26: Bind flags follow configuration. The flags include USE_NEED_WAKEUP
\* unless need_wakeup is Some(false) (None and no config include it),
\* ZEROCOPY for zero_copy = Some(true), COPY for Some(false), neither for
\* None; ifindex and queue_id are the arguments and shared_umem_fd is 0.
C26_BindFlags ==
    [][Called("-", "bind") =>
          LET arg == last'.data[1]
              sxdp == last'.data[2]
              has(f) == BitAnd(sxdp.sxdp_flags, f) # 0
          IN /\ has(XDP_USE_NEED_WAKEUP) = (need_wakeup_of(arg.config) # << FALSE >>)
             /\ has(XDP_ZEROCOPY) = (zero_copy_of(arg.config) = << TRUE >>)
             /\ has(XDP_COPY) = (zero_copy_of(arg.config) = << FALSE >>)
             /\ sxdp.sxdp_flags \in
                   {BitOr(a, b) : a \in {0, XDP_USE_NEED_WAKEUP},
                                  b \in {0, XDP_COPY, XDP_ZEROCOPY}}
             /\ sxdp.sxdp_ifindex = arg.if_index
             /\ sxdp.sxdp_queue_id = arg.if_queue
             /\ sxdp.sxdp_shared_umem_fd = 0]_vars

\* a socket bound with a config that leaves need_wakeup open and asks for
\* copy mode
C26_Witness ==
    /\ last.op = "bind"
    /\ last.data[1].config = << [zero_copy |-> << FALSE >>, huge_page |-> << >>,
                                 need_wakeup |-> << >>] >>
    /\ last.data[1].if_index = 7 /\ last.data[1].if_queue = 3
    /\ last.data[2].sxdp_flags = XDP_USE_NEED_WAKEUP + XDP_COPY

\* ----------------------------------------------------------------- teardown

\* the ring mappings a handle holds
RingsOf(dir) ==
    (IF Sock(dir).x_ring.mapped THEN {RingName(dir, "x")} ELSE {})
    \cup (IF Sock(dir).u_ring.mapped THEN {RingName(dir, "u")} ELSE {})

\* the step releases the UMEM mapping or closes the socket
ReleasesCore(ev) ==
    \E i \in 1 .. Len(ev) : ev[i].ring \in {"umem", "fd"} /\ ev[i].kind \in {"munmap", "close"}

\* C27: Teardown order. When the last handle of a SocketCore is dropped its
\* ring mappings are unmapped first, then the UMEM, then the socket is
\* closed: no step unmaps the UMEM or closes the socket while a ring mapping
\* of the handle being dropped is still mapped.
C27_TeardownOrder ==
    [][\A dir \in {"tx", "rx"} :
          (last'.dir = dir /\ last'.op \in {"drop_inner", "drop_ring"}
             /\ ReleasesCore(last'.ev))
          => RingsOf(dir) \cap kernel.open = {}]_vars

\* the number of events of a kind on a resource
CountEv(ev, r, kind) ==
    Cardinality({i \in 1 .. Len(ev) : ev[i].ring = r /\ ev[i].kind = kind})

\* C28: SocketCore lifetime. The UMEM mapping and the socket shared by the
\* two handles stay valid while a handle holds the core; the drop of a
\* handle that is not the last releases nothing, the drop of the last one
\* releases the UMEM and the socket exactly once each, whichever handle it
\* is; a failing munmap is logged, leaves the region to the OS and does not
\* prevent the close of the socket; no other step releases them.
C28_CoreLifetime ==
    [][/\ (tx'.inner \/ rx'.inner) => {"umem", "fd"} \subseteq kernel'.open
       /\ \A dir \in {"tx", "rx"} :
             /\ Called(dir, "drop_inner") =>
                   IF tx'.inner \/ rx'.inner
                   THEN last'.ev = << >> /\ kernel'.open = kernel.open
                   ELSE /\ {"umem", "fd"} \subseteq kernel.open
                        /\ CountEv(last'.ev, "umem", "munmap") = 1
                        /\ CountEv(last'.ev, "fd", "close") = 1
                        /\ "fd" \notin kernel'.open
                        /\ ("umem" \in kernel'.open) <=>
                              (\E i \in 1 .. Len(last'.ev) : last'.ev[i] = LogError)
                        /\ kernel'.open \ {"umem"} = kernel.open \ {"umem", "fd"}
             /\ Called(dir, "drop_ring") => ~ReleasesCore(last'.ev)]_vars

\* under Both the TX handle was dropped first and is half way through its
\* drop; the RX handle, the last holder, has just released the core, its
\* munmap failing
C28_Witness ==
    /\ last.dir = "rx" /\ last.op = "drop_inner"
    /\ ~tx.inner /\ ~tx.x_ring.mapped /\ tx.u_ring.mapped
    /\ rx.x_ring.mapped /\ ~rx.inner
    /\ last.ev = << Event("umem", "munmap", 0, 0, 0), LogError, Event("fd", "close", 0, 0, 0) >>
    /\ "fd" \notin kernel.open /\ "umem" \in kernel.open

\* ------------------------------------------------------ the two handles

\* frames each of the two handles commits while the other one works
MaxBoth == 1

\* the commits of the two handles, and the frames the kernel takes and
\* delivers on the RX side, up to that bound
BothTxCommit == tx.producer < MaxBoth /\ TxCommit(1)
BothRxCommit == rx.consumer < MaxBoth /\ RxCommit(1)
BothRxTake == rx.u_ring.consumer < MaxBoth /\ KernelRxTake
BothRxReceive == rx.x_ring.producer < MaxBoth /\ KernelRxReceive(<< 205 >>)

\* a TxHandle and an RxHandle created together, their calls in any
\* interleaving, and the kernel
NextBoth ==
    \/ TxSeek(1)
    \/ TxPeek(0, 1)
    \/ TxWrite(<< 171 >>)
    \/ BothTxCommit
    \/ KernelTxConsume
    \/ KernelTxComplete
    \/ RxSeek(1)
    \/ RxPeek(0)
    \/ BothRxCommit
    \/ BothRxTake
    \/ BothRxReceive

SpecBoth == InitDir("Both") /\ [][NextBoth]_vars

\* the first byte address of the RX partition under Both
RxBase == tx_ring_size("Both") * FRAME_SIZE

\* the state of one handle's side: its two rings and its cached indices
Side(s) == << s.x_ring, s.u_ring, s.available, s.producer, s.consumer >>

\* C29: TX/RX independence. Under Both every TX operation (seek, peek and
\* the write of the peeked slice, commit) leaves the RX ring, the Fill ring,
\* the RX handle's cached indices and every RX-partition frame unchanged,
\* and every RX operation leaves the TX ring, the Completion ring, the TX
\* handle's cached indices and every TX-partition frame unchanged; the slice
\* a TX peek hands out lies in the TX partition.
C29_Independence ==
    [][/\ last'.dir = "tx" =>
             /\ Side(rx') = Side(rx)
             /\ \A a \in Tracked : a >= RxBase => umem'[a] = umem[a]
             /\ slice'.some => slice'.addr + slice'.len <= RxBase
       /\ last'.dir = "rx" =>
             /\ Side(tx') = Side(tx)
             /\ \A a \in Tracked : a < RxBase => umem'[a] = umem[a]]_vars

\* both handles have worked: the TX handle has written and committed a frame
\* after the RX handle recycled one, and each side is where its own calls
\* left it
C29_Witness ==
    /\ last.dir = "tx" /\ last.op = "commit" /\ last.res = Ok(0)
    /\ last.prev.op = "write"
    /\ tx.x_ring.producer = 1 /\ umem[0] = 171
    /\ rx.consumer = 1 /\ rx.x_ring.consumer = 1
    /\ rx.inner /\ tx.inner

\* ------------------------------------------------------------- OwnedMmap

\* the huge page size OwnedMmap::mmap asks for, in kB and in bytes
HUGE_PAGE_KB == 2048
HUGE_PAGE_SIZE == 2 * 1024 * 1024
\* sysconf(_SC_PAGESIZE)
PAGE_SIZE == 4096
\* the errno of an mmap that fails
ENOMEM == 12

\* HugePageInfo as get_hugepage_info returns it; ok = FALSE is its io::Error
HugePageInfos ==
    {[ok |-> FALSE, size_kb |-> << >>, free |-> << >>]} \cup
    {[ok |-> TRUE, size_kb |-> k, free |-> f] :
        k \in {<< >>, << HUGE_PAGE_KB >>, << 512 * HUGE_PAGE_KB >>},
        f \in {<< >>, << 0 >>, << 1 >>, << 3 >>}}

\* the sizes asked for
MmapSizes == {1, PAGE_SIZE, FRAME_COUNT * FRAME_SIZE, HUGE_PAGE_SIZE, HUGE_PAGE_SIZE + 1}

\* a rounding down to the page size
align_down(size, page_size) == (size \div page_size) * page_size

\* (size + page_size - 1) & !(page_size - 1), page_size a power of two
align_up(size, page_size) == ((size + page_size - 1) \div page_size) * page_size

\* the libc::mmap call and what OwnedMmap::mmap makes of its return
mmap_region(size, huge_tlb, failed) ==
    LET page_size == IF huge_tlb THEN HUGE_PAGE_SIZE ELSE PAGE_SIZE
        aligned_size == align_up(size, page_size)
        call == [len |-> aligned_size,
                 prot |-> {"PROT_READ", "PROT_WRITE"},
                 flags |-> {"MAP_PRIVATE", "MAP_ANONYMOUS"} \cup
                           (IF huge_tlb THEN {"MAP_HUGETLB", "MAP_HUGE_2MB"} ELSE {})]
    IN [res |-> IF failed THEN IoError(ENOMEM) ELSE Ok(aligned_size),
        calls |-> << call >>]

\* an mmap that, left to the probe, takes huge pages of any size
OwnedMmap_mmap_any(size, huge_page, info, failed) ==
    IF huge_page # << >> THEN mmap_region(size, huge_page[1], failed)
    ELSE IF ~info.ok THEN [res |-> IoError(0), calls |-> << >>]
    ELSE mmap_region(size, info.free # << >> /\ info.size_kb # << >> /\ info.free[1] > 0,
                     failed)

\* OwnedMmap::mmap(size, huge_page); info is what get_hugepage_info returns
\* when called, failed tells that libc::mmap returns MAP_FAILED
OwnedMmap_mmap(size, huge_page, info, failed) ==
    IF huge_page # << >> THEN mmap_region(size, huge_page[1], failed)
    ELSE IF ~info.ok THEN [res |-> IoError(0), calls |-> << >>]
    ELSE mmap_region(size,
                     info.free # << >> /\ info.size_kb = << HUGE_PAGE_KB >>
                        /\ info.free[1] > 0,
                     failed)

\* a call of OwnedMmap::mmap; the record's data are the arguments, with the
\* state of the system, and the mmap calls made
Mmap(size, huge_page, info, failed) ==
    /\ LET r == OwnedMmap_mmap(size, huge_page, info, failed)
       IN last' = Log("-", "mmap", 0, 0, size,
                      << [size |-> size, huge_page |-> huge_page, info |-> info,
                          failed |-> failed],
                         r.calls >>,
                      r.res, << >>)
    /\ UNCHANGED << tx, rx, umem, kernel, slice >>

\* OwnedMmap::len of the mapping a successful mmap returned
OwnedMmap_len(m) == m.val

\* setup_umem registers the mapping it got as the UMEM; the record's len is
\* the xdp_umem_reg.len, and the mapping stays in res
UmemReg ==
    /\ last.op = "mmap" /\ last.res.tag = "Ok"
    /\ last' = Log("-", "umem_reg", 0, 0, OwnedMmap_len(last.res), last.data,
                   last.res, << >>)
    /\ UNCHANGED << tx, rx, umem, kernel, slice >>

\* OwnedMmap::drop; the record's len is the length passed to munmap
UmemDrop ==
    /\ last.op \in {"mmap", "umem_reg"} /\ last.res.tag = "Ok"
    /\ last' = Log("-", "munmap", 0, 0, OwnedMmap_len(last.res), last.data,
                   Ok(0), << >>)
    /\ UNCHANGED << tx, rx, umem, kernel, slice >>

NextMmap ==
    \/ \E size \in MmapSizes : \E huge_page \in OptionBool :
          \E info \in HugePageInfos : \E failed \in BOOLEAN :
             Mmap(size, huge_page, info, failed)
    \/ UmemReg
    \/ UmemDrop

SpecMmap == InitNone /\ [][NextMmap]_vars

\* a call asks for 2 MiB huge pages
AsksHuge(call) == {"MAP_HUGETLB", "MAP_HUGE_2MB"} \subseteq call.flags
\* a call asks for base pages
AsksBase(call) == {"MAP_HUGETLB", "MAP_HUGE_2MB"} \cap call.flags = {}

\* C30: OwnedMmap page policy. Always (Some(true)) asks for 2 MiB huge
\* pages, once, and returns the OS error if that mapping fails; Never
\* (Some(false)) maps base pages; Auto (None) asks for huge pages iff the
\* probe reports a huge page size of exactly 2048 kB and at least one free
\* huge page. The length mapped is the size rounded up to the page size.
C30_PagePolicy ==
    [][Called("-", "mmap") =>
          LET arg == last'.data[1]
              calls == last'.data[2]
              mapped(page) ==
                  /\ Len(calls) = 1
                  /\ calls[1].len >= arg.size /\ calls[1].len < arg.size + page
                  /\ calls[1].len % page = 0
                  /\ last'.res = IF arg.failed THEN IoError(ENOMEM) ELSE Ok(calls[1].len)
              huge == mapped(HUGE_PAGE_SIZE) /\ AsksHuge(calls[1])
              base == mapped(PAGE_SIZE) /\ AsksBase(calls[1])
          IN /\ arg.huge_page = << TRUE >> => huge
             /\ arg.huge_page = << FALSE >> => base
             /\ (arg.huge_page = << >> /\ arg.info.ok) =>
                   IF /\ arg.info.size_kb = << 2048 >>
                      /\ arg.info.free # << >>
                      /\ arg.info.free[1] >= 1
                   THEN huge ELSE base]_vars

\* left to the probe, with three free huge pages of 2048 kB, the UMEM is
\* mapped on one huge page
C30_Witness ==
    /\ last.op = "mmap"
    /\ last.data[1].huge_page = << >>
    /\ last.data[1].info = [ok |-> TRUE, size_kb |-> << 2048 >>, free |-> << 3 >>]
    /\ last.data[1].size = FRAME_COUNT * FRAME_SIZE
    /\ AsksHuge(last.data[2][1])
    /\ last.res = Ok(2097152)

\* C31: Huge-page probe failure falls back. Under Auto (None), when the
\* probe of the memory information fails, mmap does not fail: it maps base
\* pages, and returns the mapping when the mapping succeeds.
C31_ProbeFallback ==
    [][(Called("-", "mmap") /\ last'.data[1].huge_page = << >>
          /\ ~last'.data[1].info.ok)
       => /\ Len(last'.data[2]) = 1
          /\ AsksBase(last'.data[2][1])
          /\ ~last'.data[1].failed => last'.res.tag = "Ok"]_vars

\* the page size a libc::mmap call is made for
PageOf(call) == IF AsksHuge(call) THEN 2097152 ELSE 4096

\* C32: OwnedMmap size rounding. For every size >= 1 the length len()
\* reports is the smallest multiple of the page size that is >= size, it is
\* the length mapped, the length registered as the UMEM length and the
\* length passed to munmap.
C32_SizeRounding ==
    [][/\ (Called("-", "mmap") /\ last'.res.tag = "Ok") =>
             LET size == last'.data[1].size
                 call == last'.data[2][1]
                 len == OwnedMmap_len(last'.res)
             IN /\ len % PageOf(call) = 0
                /\ size <= len /\ len < size + PageOf(call)
                /\ call.len = len
       /\ (last'.op \in {"umem_reg", "munmap"}) =>
             /\ last'.len = last'.data[2][1].len
             /\ last'.len >= last'.data[1].size
             /\ last'.len % PageOf(last'.data[2][1]) = 0]_vars

\* a mapping of one byte more than a huge page, on huge pages, was
\* registered with two huge pages and is unmapped with them
C32_Witness ==
    /\ last.op = "munmap"
    /\ last.prev = NoPrev
    /\ last.data[1].size = 2097153
    /\ AsksHuge(last.data[2][1])
    /\ last.len = 4194304

\* --------------------------------------------------- construction steps

\* in a run every a comes before every b
Precedes(tr, a, b) ==
    \A i, j \in 1 .. Len(tr) : (tr[i] \in a /\ tr[j] \in b) => i < j

SetSizes == {"set_size_fill", "set_size_completion", "set_size_tx", "set_size_rx"}
RingMmaps == {"mmap_completion", "mmap_tx", "mmap_rx", "mmap_fill"}
Seeds == {"seed_tx", "seed_fill", "publish_fill"}

C34_RingSizes ==
    [][\A direction \in {"Tx", "Rx", "Both"} :
          (Called(direction, "create_socket") /\ last'.res = Ok(0)) =>
             LET sizes == kernel'.sizes
                 sized(ring, count) ==
                    ring.mapped => ring.len = count /\ ring.mod_mask = count - 1
             IN /\ direction = "Tx" => sizes.fill = 1 /\ ~rx'.u_ring.mapped
                /\ direction = "Rx" => sizes.completion = 1 /\ ~tx'.u_ring.mapped
                /\ sized(tx'.x_ring, sizes.tx)
                /\ sized(tx'.u_ring, sizes.completion)
                /\ sized(rx'.x_ring, sizes.rx)
                /\ sized(rx'.u_ring, sizes.fill)]_vars

\* ------------------------------------------------------- publish ordering

\* the commits of a TX handle up to one frame past the bound on the frames
\* sent
OrderTxCommit == \E n \in {1, 2} : tx.producer + n <= MaxSent + 1 /\ TxCommit(n)

\* the calls of a handle with the writes of the peeked slices, and the kernel
NextOrder ==
    \/ \E n \in {1, 3} : TxSeek(n)
    \/ \E i \in {0, 1} : TxPeek(i, 1)
    \/ TxWrite(<< 171 >>)
    \/ OrderTxCommit
    \/ KernelTxConsume
    \/ KernelTxComplete
    \/ RxSeek(1)
    \/ RxPeek(0)
    \/ \E n \in {1, 2} : RxCommit(n)
    \/ KernelRxTake
    \/ KernelRxReceive(<< 205 >>)

SpecOrder == (InitDir("Tx") \/ InitDir("Rx")) /\ [][NextOrder]_vars

\* the slots of a ring between its consumer and its producer
Slots(ring) ==
    {BitAnd(wrapping_add(ring.consumer, k - 1), ring.mod_mask) :
        k \in 1 .. wrapping_sub(ring.producer, ring.consumer)}

\* the frames the TX handle has published and not reclaimed: in the TX ring,
\* with the kernel, or in the Completion ring
TxInFlight ==
    {tx.x_ring.desc[i].addr : i \in Slots(tx.x_ring)}
    \cup BagToSet(kernel.tx)
    \cup {tx.u_ring.desc[i] : i \in Slots(tx.u_ring)}

\* the positions in ev of the events of a kind on a ring
EvAt(ev, ring, kind) == {i \in 1 .. Len(ev) : ev[i].ring = ring /\ ev[i].kind = kind}

\* C35: SPSC publish ordering. In TX no descriptor of a slot that is
\* published and not consumed is written (reclaim in seek, len in peek) and
\* no payload byte is written to a frame that is published and not
\* reclaimed; in an RX commit(n) the n Fill slots are written before the
\* Fill producer is published; in a TX seek the Completion producer is
\* loaded first, each Completion slot is read before the consumer value that
\* releases it is published, and no more slots are read than lie below the
\* loaded producer.
C35_PublishOrder ==
    [][/\ Called("tx", "write") => slice.addr \notin TxInFlight
       /\ (Called("tx", "peek") \/ Called("tx", "seek")) =>
             \A i \in EvAt(last'.ev, "x", "write_desc") :
                last'.ev[i].at \notin Slots(tx.x_ring)
       /\ (Called("rx", "commit") /\ last'.res = Ok(0)) =>
             /\ Cardinality(EvAt(last'.ev, "u", "write_desc")) = last'.n
             /\ Cardinality(EvAt(last'.ev, "u", "store_producer")) = 1
             /\ \A i \in EvAt(last'.ev, "u", "write_desc") :
                   \A j \in EvAt(last'.ev, "u", "store_producer") : i < j
       /\ (Called("tx", "seek") /\ last'.ev # << >>) =>
             /\ last'.ev[1].kind = "load_producer"
             /\ Cardinality(EvAt(last'.ev, "u", "read_desc"))
                   <= wrapping_sub(last'.ev[1].val, tx.consumer)
             /\ \A i \in EvAt(last'.ev, "u", "read_desc") :
                   /\ i + 1 \in EvAt(last'.ev, "u", "store_consumer")
                   /\ last'.ev[i].at = BitAnd(last'.ev[i + 1].val - 1 + U32, tx.u_ring.mod_mask)
                   /\ \A j \in EvAt(last'.ev, "u", "store_consumer") :
                         j < i => wrapping_sub(last'.ev[j].val, tx.consumer)
                                  < wrapping_sub(last'.ev[i + 1].val, tx.consumer)]_vars

\* ---------------------------------------------------- occupancy of the rings

\* 0 <= (producer - consumer) mod 2^32 <= len
Occupied(ring) == wrapping_sub(ring.producer, ring.consumer) <= ring.len

\* C36: Ring occupancy invariant. With a kernel that follows the protocol
\* each of the four rings has 0 <= (producer - consumer) mod 2^32 <= len in
\* every state: the user never publishes a TX or Fill producer more than len
\* ahead of the kernel's consumer, nor a Completion or RX consumer beyond the
\* kernel's producer.
C36_RingOccupancy ==
    /\ tx.inner => Occupied(tx.x_ring) /\ Occupied(tx.u_ring)
    /\ rx.inner => Occupied(rx.x_ring) /\ Occupied(rx.u_ring)

\* C37: available is bounded. In every state of a TX or RX handle the
\* cached available is at most the length of the handle's primary ring (and,
\* an unsigned number, it does not pass below 0 and wrap).
C37_AvailableBounded ==
    /\ tx.inner => tx.available >= 0 /\ tx.available <= tx.x_ring.len
    /\ rx.inner => rx.available >= 0 /\ rx.available <= rx.x_ring.len

\* C40: No user write into a kernel-owned slot. The user side never writes
\* a TX ring slot between the kernel's TX consumer and the published TX
\* producer (staging in TX seek, len in TX peek), and never writes a Fill
\* ring slot between the kernel's Fill consumer and the published Fill
\* producer (refill in RX commit).
C40_NoWriteIntoKernelSlot ==
    [][/\ \A op \in {"seek", "peek"} :
             Called("tx", op) =>
                \A i \in EvAt(last'.ev, "x", "write_desc") :
                   last'.ev[i].at \notin Slots(tx.x_ring)
       /\ Called("rx", "commit") =>
             \A i \in EvAt(last'.ev, "u", "write_desc") :
                last'.ev[i].at \notin Slots(rx.u_ring)]_vars

\* ------------------------------------------------------------- wraparound

\* the index the handles start from: the last one before the wrap
WrapStart == U32 - 1

\* a ring d indices later: its words moved on by d, its slots by d & mask
ShiftRing(ring, d) ==
    IF ~ring.mapped THEN ring
    ELSE [ring EXCEPT
            !.producer = wrapping_add(@, d),
            !.consumer = wrapping_add(@, d),
            !.desc = [i \in 0 .. ring.len - 1 |->
                         ring.desc[BitAnd(wrapping_sub(i, d), ring.mod_mask)]]]

\* a handle d indices later
Shift(s, d) ==
    IF ~s.inner THEN s
    ELSE [s EXCEPT !.producer = wrapping_add(@, d),
                   !.consumer = wrapping_add(@, d),
                   !.x_ring = ShiftRing(@, d),
                   !.u_ring = ShiftRing(@, d)]

\* the state of a handle whose indices have all come to WrapStart: the
\* state after construction, WrapStart indices later
InitWrap ==
    /\ \E direction \in {"Tx", "Rx"} :
          /\ tx = Shift(create_socket(direction).tx.sock, WrapStart)
          /\ rx = Shift(create_socket(direction).rx.sock, WrapStart)
    /\ umem = [a \in Tracked |-> 0]
    /\ kernel = [tx |-> EmptyBag, rx |-> EmptyBag]
    /\ slice = Borrowed(NoSlice, 0)
    /\ last = [dir |-> "-", op |-> "create", n |-> 0, index |-> 0, len |-> 0,
               data |-> << >>, res |-> Ok(0), ev |-> << >>, prev |-> NoPrev]

\* the commits of the handles, up to MaxSent and MaxReceived indices past
\* WrapStart
WrapTxCommit(n) ==
    /\ tx.inner
    /\ LET r == Tx_commit_(tx, n)
       IN /\ r.res.tag = "Ok" => wrapping_sub(tx.producer, WrapStart) + n <= MaxSent
          /\ tx' = r.s
          /\ last' = Log("tx", "commit", n, 0, 0, << >>, r.res, r.ev)
    /\ slice' = Borrowed(NoSlice, 0)
    /\ UNCHANGED << rx, umem, kernel >>

WrapRxCommit(n) ==
    /\ rx.inner
    /\ LET r == Rx_commit_(rx, n)
       IN /\ r.res.tag = "Ok" => wrapping_sub(rx.consumer, WrapStart) + n <= MaxReceived
          /\ rx' = r.s
          /\ last' = Log("rx", "commit", n, 0, 0, << >>, r.res, r.ev)
    /\ UNCHANGED << tx, umem, kernel, slice >>

\* the kernel takes the next address off the Fill ring and publishes a
\* descriptor of one byte for it on the RX ring
WrapRxDeliver ==
    /\ rx.x_ring.mapped
    /\ wrapping_sub(rx.x_ring.producer, WrapStart) < MaxReceived
    /\ rx.u_ring.consumer # rx.u_ring.producer
    /\ KernelRxFree # 0
    /\ LET addr == rx.u_ring.desc[BitAnd(rx.u_ring.consumer, rx.u_ring.mod_mask)]
       IN rx' = [rx EXCEPT
                   !.u_ring.consumer = wrapping_add(@, 1),
                   !.x_ring.desc[BitAnd(rx.x_ring.producer, rx.x_ring.mod_mask)] =
                       XdpDesc(addr, 1, 0),
                   !.x_ring.producer = wrapping_add(@, 1)]
    /\ last' = KernelLog("rx_deliver")
    /\ UNCHANGED << tx, umem, kernel, slice >>

NextWrap ==
    \/ \E n \in {1, 3} : TxSeek(n)
    \/ \E i \in {0, 1} : TxPeek(i, 1)
    \/ \E n \in {1, 2} : WrapTxCommit(n)
    \/ KernelTxConsume
    \/ KernelTxComplete
    \/ \E n \in {1, 2} : RxSeek(n)
    \/ \E i \in {0, 1} : RxPeek(i)
    \/ \E n \in {1, 2} : WrapRxCommit(n)
    \/ WrapRxDeliver

SpecWrap == InitWrap /\ [][NextWrap]_vars

\* the indices back from WrapStart to 0
Unshift(s) == Shift(s, U32 - WrapStart)

Segv == [tag |-> "Segv", val |-> 0]

\* a call on a handle made by Socket::default(): no core, both rings the
\* null mapping of length 0. Under a Tx-only construction the RX handle of
\* the model is this handle, under an Rx-only one the TX handle. The unsafe
\* accessors of Ring load and store through the mapping's pointers without
\* looking at len: where a call reaches one, its load or store goes through
\* a null pointer, and the call either stops the process or goes on with
\* the word read as the null mapping's 0. The handle is left as it was.
DefaultCall(dir, op, n) ==
    /\ ~Sock(dir).inner
    /\ LET s == Sock(dir)
           r == CASE op = "seek" -> IF dir = "tx" THEN Tx_seek_(s, n) ELSE Rx_seek_(s, n)
                  [] op = "peek" -> IF dir = "tx"
                                    THEN [s |-> Tx_peek_(s, n, 1).s, res |-> Tx_peek_(s, n, 1).res,
                                          ev |-> Tx_peek_(s, n, 1).ev]
                                    ELSE [s |-> Rx_peek_(s, n).s, res |-> Rx_peek_(s, n).res,
                                          ev |-> Rx_peek_(s, n).ev]
                  [] op = "commit" -> IF dir = "tx" THEN Tx_commit_(s, n) ELSE Rx_commit_(s, n)
                  [] op = "kick" -> kick(s, dir, 0, 0)
       IN /\ r.s = s
          /\ \E res \in (IF r.ev = << >> THEN {r.res} ELSE {r.res, Segv}) :
                last' = Log(dir, op, n, 0, 0, << >>, res, r.ev)
    /\ UNCHANGED << tx, rx, umem, kernel, slice >>

NextSentinel ==
    \/ \E dir \in {"tx", "rx"}, op \in {"seek", "peek", "commit", "kick"},
          n \in {0, 1} : DefaultCall(dir, op, n)
    \/ \E dir \in {"tx", "rx"} : Kick(dir, << 0, 0 >>)
    \/ TxSeek(3)
    \/ TxPeek(0, 1)
    \/ OrderTxCommit
    \/ KernelTxConsume
    \/ KernelTxComplete
    \/ RxSeek(1)
    \/ RxPeek(0)
    \/ RxCommit(1)
    \/ KernelRxTake
    \/ KernelRxReceive(<< 205 >>)

SpecSentinel == (InitDir("Tx") \/ InitDir("Rx")) /\ [][NextSentinel]_vars

\* C39: Sentinel rings are never touched. No call loads or stores a word or
\* a descriptor of a ring of length 0, be it of the unused pair of a Tx-only
\* or Rx-only construction or of a default-constructed handle, and no call
\* on a handle without a core makes a syscall.
C39_SentinelUntouched ==
    [][\A dir \in {"tx", "rx"} :
          last'.dir = dir =>
             \A k \in 1 .. Len(last'.ev) :
                /\ last'.ev[k].ring = "x" => Sock(dir).x_ring.len # 0
                /\ last'.ev[k].ring = "u" => Sock(dir).u_ring.len # 0
                /\ last'.ev[k].ring = "fd" => Sock(dir).inner]_vars

====
